---- MODULE Spec2Model ----
(***************************************************************************)
(* A model of the nhl-elo-v2 pipeline:                                     *)
(*   02_processing/01_process_raw_shifts.py  (Interval Normalizer)         *)
(*   02_processing/build_final_summaries.py  (On-Ice State Reconstructor,  *)
(*        Event Attributor, Matchup Aggregator, fan-out / fan-in)          *)
(*   02_processing/build_matchup_summaries.py (stand-alone aggregator)     *)
(*   03_analysis/run_elo_model.py            (Rating Engine)               *)
(*                                                                         *)
(* Units.  Times are integer seconds.  xG values are integers in 1/100     *)
(* goal.  Ratings are integers in 1/100 Elo point, expected and actual     *)
(* scores are integers in 1/1000; the float arithmetic of the rating       *)
(* update is modelled by this fixed-point arithmetic with floor division.  *)
(* The persisted tables are modelled by their contents: the column names   *)
(* toi_5v5 / xg_for_5v5 / xg_against_5v5 read by the Rating Engine are the *)
(* columns duration_seconds / game_xg_for / game_xg_against written by     *)
(* build_final_summaries.py; the directories and file names under which    *)
(* the scripts exchange the tables are not part of the model.              *)
(***************************************************************************)
EXTENDS Integers, Sequences, FiniteSets, TLC

(* ------------------------------ config.py ------------------------------ *)
INITIAL_ELO == 1500
K_FACTOR == 20
HOME_ICE_ADVANTAGE_ELO == 35
FORWARD_NORMALIZATION_TOI == 15
DEFENSEMAN_NORMALIZATION_TOI == 20
SEASON_TO_PROCESS == 2023
GAME_XG_NORMALIZATION_FACTOR == 2

(* ----------------------- constants of the scripts ---------------------- *)
\* typeCode of a regular on-ice shift
REGULAR_SHIFT_TYPE == 517
\* seconds per regulation period
PERIOD_SECONDS == 1200
\* skaters per side of a qualifying slice
SKATERS_PER_SIDE == 5

(* ------------------------------- bounds -------------------------------- *)
\* extra shift records added to the base roster of a game
MaxExtras == 2
\* shot events of a game
MaxEvents == 1

(* ------------------------- sequence utilities -------------------------- *)
RECURSIVE SeqSum(_)
SeqSum(s) == IF s = <<>> THEN 0 ELSE Head(s) + SeqSum(Tail(s))

RECURSIVE SetSum(_, _)
\* sum of f[x] over x in S
SetSum(f, S) ==
  IF S = {} THEN 0
  ELSE LET x == CHOOSE y \in S : TRUE IN f[x] + SetSum(f, S \ {x})

RECURSIVE SetToSeq(_)
\* the elements of a finite set of integers in ascending order
SetToSeq(S) ==
  IF S = {} THEN <<>>
  ELSE LET m == CHOOSE x \in S : \A y \in S : x <= y
       IN <<m>> \o SetToSeq(S \ {m})

RECURSIVE Concat(_)
\* concatenation of a sequence of sequences
Concat(ss) == IF ss = <<>> THEN <<>> ELSE Head(ss) \o Concat(Tail(ss))

Range(s) == {s[i] : i \in 1..Len(s)}

(* ----------------------------- the inputs ------------------------------ *)
HomeCode == "HOM"
AwayCode == "AWY"

\* players 1..6 and the goalie 13 dress for HOM, 7..12 for AWY
HomeSkaters == 1..6
AwaySkaters == 7..12
Goalies == {13}
Players == HomeSkaters \cup AwaySkaters \cup Goalies

TeamOf(p) == IF p \in HomeSkaters \cup Goalies THEN HomeCode ELSE AwayCode

\* player_database.csv: player 12 is missing from it (position is NaN)
PlayerDb ==
  [p \in Players \ {12} |->
     IF p \in Goalies THEN "G"
     ELSE IF p \in {4, 5, 10, 11} THEN "D"
     ELSE "C"]

\* pd.merge(..., player_db_df[['player_id','position']], how='left')
Position(p) == IF p \in DOMAIN PlayerDb THEN PlayerDb[p] ELSE "NaN"

\* a "mm:ss" cell of the raw shift chart
Clock(m, s) == [isstr |-> TRUE, numeric |-> TRUE, parts |-> <<m, s>>]

\* a cell that is not a "mm:ss" text: letters, a single number, an empty cell
\* (read as the float NaN)
BadClock == [isstr |-> TRUE, numeric |-> FALSE, parts |-> <<0, 0>>]
ShortClock == [isstr |-> TRUE, numeric |-> TRUE, parts |-> <<5>>]
EmptyCell == [isstr |-> FALSE, numeric |-> FALSE, parts |-> <<>>]

\* a well-formed record; the playerId cell is <<id>>, or <<>> when empty
RawShift(g, p, per, a, b) ==
  [gameId |-> g, playerId |-> <<p>>, teamAbbrev |-> TeamOf(p), period |-> per,
   startTime |-> Clock(a, 0), endTime |-> Clock(b, 0),
   duration |-> Clock(b - a, 0), typeCode |-> REGULAR_SHIFT_TYPE]

\* the kinds of odd record a raw shift chart may hold besides its shifts
BadKinds == {"clock", "short", "empty_time", "empty_player", "other_type"}

\* the odd record of each kind: a record of skater 6 for 0:00-5:00 of period 1
BadRecord(g, kind) ==
  LET r == RawShift(g, 6, 1, 0, 5)
  IN CASE kind = "clock" -> [r EXCEPT !.startTime = BadClock]
       [] kind = "short" -> [r EXCEPT !.endTime = ShortClock]
       [] kind = "empty_time" -> [r EXCEPT !.duration = EmptyCell]
       [] kind = "empty_player" -> [r EXCEPT !.playerId = <<>>]
       [] kind = "other_type" -> [r EXCEPT !.typeCode = 505]

\* in a game played after the trade, skaters 1 and 7 dress for the other team
Traded(r, swap) ==
  IF swap /\ r.playerId \in {<<1>>, <<7>>}
    THEN [r EXCEPT !.teamAbbrev = IF @ = HomeCode THEN AwayCode ELSE HomeCode]
    ELSE r

\* the spans <<period, start minute, end minute>> an extra record may have
ExtraSpans == {<<1, 0, 5>>, <<1, 5, 10>>, <<1, 0, 10>>}
ExtraPlayers == {1, 5, 6, 12, 13}
ExtraPool == ExtraPlayers \X ExtraSpans

\* every extra key as an integer, to order the extra records of a file
ExtraKey(x) == x[1] * 1000 + x[2][1] * 100 + x[2][2] * 10 + x[2][3]
ExtraOfKey(k) == CHOOSE x \in ExtraPool : ExtraKey(x) = k

\* the shifts of the base roster in one period: nH home and nA away skaters
\* on for minutes 0..10
BaseShifts(g, nH, nA, per) ==
  [i \in 1..nH |-> RawShift(g, i, per, 0, 10)]
  \o [i \in 1..nA |-> RawShift(g, 6 + i, per, 0, 10)]

\* the extra records, in key order
ExtraShifts(g, extras) ==
  LET ks == SetToSeq({ExtraKey(x) : x \in extras})
  IN [i \in 1..Len(ks) |->
        LET x == ExtraOfKey(ks[i])
        IN RawShift(g, x[1], x[2][1], x[2][2], x[2][3])]

\* a raw shift chart: the base roster in each of the game's periods, the
\* extra records, the odd record if there is one
MkGame(g, game) ==
  LET shifts ==
        Concat([per \in 1..game.periods |->
                  BaseShifts(g, game.nH, game.nA, per)])
        \o ExtraShifts(g, game.extras)
  IN [i \in 1..Len(shifts) |-> Traded(shifts[i], game.swap)]
     \o (IF game.bad \in BadKinds THEN <<BadRecord(g, game.bad)>> ELSE <<>>)

(* ------------- 01_process_raw_shifts.py: Interval Normalizer ----------- *)
\* parse_time_to_seconds: <<seconds>>, or <<>> for None
parse_time_to_seconds(time_str) ==
  IF ~time_str.isstr THEN <<>>
  ELSE IF Len(time_str.parts) # 2 \/ ~time_str.numeric THEN <<>>
  ELSE <<time_str.parts[1] * 60 + time_str.parts[2]>>

\* one record of a processed file, times converted
NormalizedShift(r) ==
  LET s == parse_time_to_seconds(r.startTime)[1]
      e == parse_time_to_seconds(r.endTime)[1]
  IN [game_id |-> r.gameId, player_id |-> r.playerId[1], team |-> r.teamAbbrev,
      period |-> r.period,
      start_seconds_period |-> s, end_seconds_period |-> e,
      absolute_start_seconds |-> (r.period - 1) * PERIOD_SECONDS + s,
      absolute_end_seconds |-> (r.period - 1) * PERIOD_SECONDS + e,
      duration_seconds |-> parse_time_to_seconds(r.duration)[1]]

\* the rows that survive the typeCode filter
RegularShifts(game_df) ==
  SelectSeq(game_df, LAMBDA r : r.typeCode = REGULAR_SHIFT_TYPE)

\* the rows that survive dropna on the three converted columns
ParsedShifts(regular) ==
  SelectSeq(regular, LAMBDA r :
      /\ parse_time_to_seconds(r.duration) # <<>>
      /\ parse_time_to_seconds(r.startTime) # <<>>
      /\ parse_time_to_seconds(r.endTime) # <<>>)

\* the body of the loop of main for one raw file: the rows of the processed
\* file (a file is written whenever a regular shift exists)
NormalizeFile(game_df) ==
  LET kept == ParsedShifts(RegularShifts(game_df))
  IN [i \in 1..Len(kept) |-> NormalizedShift(kept[i])]

\* regular_shifts_df['playerId'].astype(int) raises on an empty cell; the
\* exception is caught around the whole body of the loop and the file is
\* left out (the period cells of the charts are never empty)
AstypeIntRaises(regular) ==
  \E i \in 1..Len(regular) : regular[i].playerId = <<>>

\* whether main writes a processed file for this raw file
WritesProcessedFile(game_df) ==
  /\ RegularShifts(game_df) # <<>>
  /\ ~AstypeIntRaises(RegularShifts(game_df))

(* -------- build_final_summaries.py: process_game_file (one game) ------- *)
\* skater_shifts: the rows whose position is not 'G' (a NaN position stays)
SkaterShifts(game_shifts_df) ==
  SelectSeq(game_shifts_df, LAMBDA r : Position(r.player_id) # "G")

\* (period, second) order of sort_values(['period', 'start_seconds_period'])
TimeLeq(a, b) == a[1] < b[1] \/ (a[1] = b[1] /\ a[2] <= b[2])

RECURSIVE SortTimes(_)
SortTimes(S) ==
  IF S = {} THEN <<>>
  ELSE LET m == CHOOSE x \in S : \A y \in S : TimeLeq(x, y)
       IN <<m>> \o SortTimes(S \ {m})

\* mutation of AllTimes for C16: the end boundaries are left out
AllTimesStartsOnly(skater_shifts) ==
  SortTimes({<<skater_shifts[i].period, skater_shifts[i].start_seconds_period>> :
               i \in 1..Len(skater_shifts)})

\* all_times: every shift boundary, de-duplicated and sorted
AllTimes(skater_shifts) ==
  SortTimes({<<skater_shifts[i].period, skater_shifts[i].start_seconds_period>> :
               i \in 1..Len(skater_shifts)}
            \cup
            {<<skater_shifts[i].period, skater_shifts[i].end_seconds_period>> :
               i \in 1..Len(skater_shifts)})

TeamCount(skater_shifts, t) ==
  Cardinality({i \in 1..Len(skater_shifts) : skater_shifts[i].team = t})

\* skater_shifts['team'].value_counts().idxmax(): the team code with the most
\* shift records, the first one met among equals
HomeTeamAbbrev(skater_shifts) ==
  LET n == Len(skater_shifts)
      cnt(i) == TeamCount(skater_shifts, skater_shifts[i].team)
      first == CHOOSE i \in 1..n :
                 /\ \A j \in 1..n : cnt(j) <= cnt(i)
                 /\ \A j \in 1..(i - 1) : cnt(j) < cnt(i)
  IN skater_shifts[first].team

\* the candidate slice between boundaries i and i+1
CandidateSlice(all_times, i) ==
  [period |-> all_times[i][1], end_period |-> all_times[i + 1][1],
   start_sec |-> all_times[i][2], end_sec |-> all_times[i + 1][2],
   duration |-> all_times[i + 1][2] - all_times[i][2]]

\* a shift row covers the midpoint start_sec + duration / 2 of the slice
\* (both sides of the comparisons doubled, the midpoint may be a half second)
CoversMidpoint(r, sl) ==
  /\ r.period = sl.period
  /\ 2 * r.start_seconds_period <= 2 * sl.start_sec + sl.duration
  /\ 2 * r.end_seconds_period > 2 * sl.start_sec + sl.duration

OnIcePlayers(skater_shifts, sl) ==
  SelectSeq(skater_shifts, LAMBDA r : CoversMidpoint(r, sl))

HomePlayers(on_ice, home) == SelectSeq(on_ice, LAMBDA r : r.team = home)
AwayPlayers(on_ice, home) == SelectSeq(on_ice, LAMBDA r : r.team # home)

\* mutation of SliceQualifies for C19: the test of the period and of the
\* duration is left out
SliceQualifiesAnyPeriod(skater_shifts, home, sl) ==
  LET on_ice == OnIcePlayers(skater_shifts, sl)
  IN /\ Len(HomePlayers(on_ice, home)) = SKATERS_PER_SIDE
     /\ Len(AwayPlayers(on_ice, home)) = SKATERS_PER_SIDE

\* the two `continue` tests of the slice loop, negated
SliceQualifies(skater_shifts, home, sl) ==
  /\ sl.period = sl.end_period
  /\ sl.duration > 0
  /\ LET on_ice == OnIcePlayers(skater_shifts, sl)
     IN /\ Len(HomePlayers(on_ice, home)) = SKATERS_PER_SIDE
        /\ Len(AwayPlayers(on_ice, home)) = SKATERS_PER_SIDE

\* the qualifying slices of a game, in boundary order
QualifyingSlices(skater_shifts) ==
  LET all_times == AllTimes(skater_shifts)
      home == HomeTeamAbbrev(skater_shifts)
      cand == [i \in 1..(Len(all_times) - 1) |-> CandidateSlice(all_times, i)]
  IN SelectSeq(cand, LAMBDA sl : SliceQualifies(skater_shifts, home, sl))

\* player_toi_records of one slice: one record per on-ice row
SliceToiRecords(game_id, on_ice, duration) ==
  [i \in 1..Len(on_ice) |->
     [game_id |-> game_id, player_id |-> on_ice[i].player_id,
      duration_seconds |-> duration]]

\* mutation of MatchupRecord for C29: the record is written before the
\* duration of the slice is known, with a duration of 0
MatchupRecordNoDuration(game_id, p1, p2, duration, type) ==
  [game_id |-> game_id, player_id |-> p1.player_id, team |-> p1.team,
   other_id |-> p2.player_id, other_team |-> p2.team,
   duration |-> 0, type |-> type]

\* one record of matchup_records
MatchupRecord(game_id, p1, p2, duration, type) ==
  [game_id |-> game_id, player_id |-> p1.player_id, team |-> p1.team,
   other_id |-> p2.player_id, other_team |-> p2.team,
   duration |-> duration, type |-> type]

\* the inner loop over home_player_data that emits teammate records
TeammateRecords(game_id, p1, home_player_data, duration) ==
  LET later == SelectSeq(home_player_data,
                         LAMBDA p2 : p1.player_id < p2.player_id)
  IN [j \in 1..Len(later) |->
        MatchupRecord(game_id, p1, later[j], duration, "teammate")]

\* matchup_records of one slice: for every home row its opponent records,
\* then its teammate records
SliceMatchupRecords(game_id, home_player_data, away_player_data, duration) ==
  Concat([i \in 1..Len(home_player_data) |->
            [j \in 1..Len(away_player_data) |->
               MatchupRecord(game_id, home_player_data[i], away_player_data[j],
                             duration, "opponent")]
            \o TeammateRecords(game_id, home_player_data[i],
                               home_player_data, duration)])

\* groupby(['game_id', 'player_id'])['duration_seconds'].sum(): per player
GameToiSummary(player_toi_records) ==
  [p \in {player_toi_records[i].player_id : i \in 1..Len(player_toi_records)} |->
     SetSum([i \in 1..Len(player_toi_records) |->
               player_toi_records[i].duration_seconds],
            {i \in 1..Len(player_toi_records) :
               player_toi_records[i].player_id = p})]

\* mutation of OnIceAtEvent for C8: the convention of the time slices, closed
\* at the start and open at the end
OnIceAtEventHalfOpen(r, time_sec) ==
  /\ r.absolute_start_seconds <= time_sec
  /\ r.absolute_end_seconds > time_sec

\* the test of event_on_ice for one shift row and an event at time_sec
OnIceAtEvent(r, time_sec) ==
  /\ r.absolute_start_seconds < time_sec
  /\ r.absolute_end_seconds >= time_sec

\* the shift rows on the ice for an event at absolute second time_sec
EventOnIce(game_shifts_df, time_sec) ==
  SelectSeq(game_shifts_df, LAMBDA r : OnIceAtEvent(r, time_sec))

\* player_game_xg_stats after the event loop: a dictionary with an entry for
\* every player met on the ice at some event
PlayerGameXgStats(game_shifts_df, game_shot_events) ==
  LET E == 1..Len(game_shot_events)
      R == 1..Len(game_shifts_df)
      hit(e, r) ==
        OnIceAtEvent(game_shifts_df[r],
                     game_shot_events[e].absolute_time_seconds)
      hits == {er \in E \X R : hit(er[1], er[2])}
      xg == [er \in hits |-> game_shot_events[er[1]].xGoal]
  IN [p \in {game_shifts_df[er[2]].player_id : er \in hits} |->
        [xg_for |->
           SetSum(xg, {er \in hits :
                         /\ game_shifts_df[er[2]].player_id = p
                         /\ game_shifts_df[er[2]].team
                              = game_shot_events[er[1]].teamCode}),
         xg_against |->
           SetSum(xg, {er \in hits :
                         /\ game_shifts_df[er[2]].player_id = p
                         /\ game_shifts_df[er[2]].team
                              # game_shot_events[er[1]].teamCode})]]

\* mutation of GameSummary for C26: an outer merge, one row per player of
\* either frame
GameSummaryOuter(game_id, toi, xg) ==
  LET ps == SetToSeq(DOMAIN toi \cup DOMAIN xg)
  IN [i \in 1..Len(ps) |->
        [game_id |-> game_id, player_id |-> ps[i],
         duration_seconds |-> IF ps[i] \in DOMAIN toi THEN toi[ps[i]] ELSE 0,
         game_xg_for |-> IF ps[i] \in DOMAIN xg THEN xg[ps[i]].xg_for ELSE 0,
         game_xg_against |->
           IF ps[i] \in DOMAIN xg THEN xg[ps[i]].xg_against ELSE 0]]

\* pd.merge(game_toi_summary, game_xg_summary, how='left').fillna(0): one row
\* per player of game_toi_summary, in player order
GameSummary(game_id, toi, xg) ==
  LET ps == SetToSeq(DOMAIN toi)
  IN [i \in 1..Len(ps) |->
        [game_id |-> game_id, player_id |-> ps[i],
         duration_seconds |-> toi[ps[i]],
         game_xg_for |-> IF ps[i] \in DOMAIN xg THEN xg[ps[i]].xg_for ELSE 0,
         game_xg_against |->
           IF ps[i] \in DOMAIN xg THEN xg[ps[i]].xg_against ELSE 0]]

\* the records the slice loop appends, over all qualifying slices
GameToiRecords(game_id, skater_shifts) ==
  LET qs == QualifyingSlices(skater_shifts)
  IN Concat([k \in 1..Len(qs) |->
               SliceToiRecords(game_id, OnIcePlayers(skater_shifts, qs[k]),
                               qs[k].duration)])

GameMatchupRecords(game_id, skater_shifts) ==
  LET qs == QualifyingSlices(skater_shifts)
      home == HomeTeamAbbrev(skater_shifts)
  IN Concat([k \in 1..Len(qs) |->
               LET on_ice == OnIcePlayers(skater_shifts, qs[k])
               IN SliceMatchupRecords(game_id, HomePlayers(on_ice, home),
                                      AwayPlayers(on_ice, home),
                                      qs[k].duration)])

\* the events of one game among the filtered shot events
GameShotEvents(shot_events, game_id) ==
  SelectSeq(shot_events, LAMBDA e : e.game_id_pbp = game_id)

\* process_game_file.  outcome "empty" is the early return of two empty
\* frames, "raise" an exception leaving the function, "ok" the normal return.
\* pd.DataFrame([]) has no columns: groupby on it (no toi records) and a merge
\* with it (no xG records) both raise KeyError.
process_game_file(game_id, game_shifts_df, shot_events) ==
  LET skater_shifts == SkaterShifts(game_shifts_df)
      toi_records == GameToiRecords(game_id, skater_shifts)
      xg == PlayerGameXgStats(game_shifts_df,
                              GameShotEvents(shot_events, game_id))
  IN IF skater_shifts = <<>>
       THEN [outcome |-> "empty", summary |-> <<>>, matchups |-> <<>>,
             xg_stats |-> <<>>]
     ELSE IF toi_records = <<>> \/ DOMAIN xg = {}
       THEN [outcome |-> "raise", summary |-> <<>>, matchups |-> <<>>,
             xg_stats |-> <<>>]
     ELSE [outcome |-> "ok",
           summary |-> GameSummary(game_id, GameToiSummary(toi_records), xg),
           matchups |-> GameMatchupRecords(game_id, skater_shifts),
           xg_stats |-> xg]

(* ---------------------- the season fed to the run ---------------------- *)
\* two regular-season games and one playoff game (characters 5-6 of the id)
GameIds == {2023020001, 2023020002, 2023030001}

\* shot events of the pool: <<second, acting team, home skaters, away skaters>>
EventPool ==
  {<<300, HomeCode, 5, 5>>, <<600, AwayCode, 5, 5>>, <<450, HomeCode, 5, 4>>}

EventKey(x) == x[1] * 10 + x[4]
EventOfKey(k) == CHOOSE x \in EventPool : EventKey(x) = k

\* the extra shift records a game of the one-game seasons may hold
RichExtras ==
  {x \in ExtraPool :
     \/ x[1] = 5
     \/ x[1] = 6 /\ x[2] # <<1, 0, 10>>
     \/ x[1] = 12 /\ x[2] = <<1, 5, 10>>
     \/ x[1] = 13 /\ x[2] = <<1, 0, 10>>}

HomeSizes == {0, 2, 3, 4, 5}
AwaySizes == {0, 2, 5}

\* the games of a one-game season
RichGameInputs ==
  {[nH |-> h, nA |-> a, extras |-> x, events |-> e,
    periods |-> 1, swap |-> FALSE, bad |-> "none"] :
     h \in HomeSizes, a \in AwaySizes,
     x \in {s \in SUBSET RichExtras : Cardinality(s) <= MaxExtras},
     e \in {s \in SUBSET EventPool : Cardinality(s) <= MaxEvents}}

\* the games of a three-game season: full strength throughout; a line change
\* of the home side at 5:00; a uniform 2-on-2 game; a game whose only shift
\* records are the goalie's
SmallGameInputs ==
  {[nH |-> 5, nA |-> 5, extras |-> {},
    events |-> {<<300, HomeCode, 5, 5>>},
    periods |-> 1, swap |-> FALSE, bad |-> "none"],
   [nH |-> 4, nA |-> 5,
    extras |-> {<<5, <<1, 0, 5>>>>, <<6, <<1, 5, 10>>>>},
    events |-> {<<600, AwayCode, 5, 5>>},
    periods |-> 1, swap |-> FALSE, bad |-> "none"],
   [nH |-> 2, nA |-> 2, extras |-> {}, events |-> {},
    periods |-> 1, swap |-> FALSE, bad |-> "none"],
   [nH |-> 0, nA |-> 0, extras |-> {<<13, <<1, 0, 10>>>>}, events |-> {},
    periods |-> 1, swap |-> FALSE, bad |-> "none"]}

\* the games of a one-game season with an odd record or a second period:
\* full strength throughout
OddGameInputs ==
  {[nH |-> 5, nA |-> 5, extras |-> {}, events |-> e,
    periods |-> n, swap |-> FALSE, bad |-> b] :
     e \in {s \in SUBSET EventPool : Cardinality(s) <= MaxEvents},
     n \in {1, 2}, b \in BadKinds \cup {"none"}}

\* the games of a two-game season around a trade of skaters 1 and 7
RegularGameIds == {2023020001, 2023020002}
TradeGameInputs ==
  {[nH |-> 5, nA |-> 5, extras |-> {}, events |-> {e},
    periods |-> 1, swap |-> w, bad |-> "none"] :
     e \in {<<300, HomeCode, 5, 5>>, <<600, AwayCode, 5, 5>>},
     w \in BOOLEAN}

VARIABLES
  season,               \* the input: game id -> the game's shift chart and events
  pc,                   \* the stage of the pipeline the run is at
  processed_files,      \* game id -> rows of the processed shift file
  tasks,                \* build_final_summaries: the order of processed_files
  pending,              \* the game tasks whose result is not collected yet
  all_summaries,        \* the collected per-game summaries
  all_matchups,         \* the collected matchup records
  xg_log,               \* game id -> player_game_xg_stats of the game's task
  final_player_summary, \* player_game_summaries.csv
  teammate_summary,     \* teammate_matchups.csv
  opponent_summary,     \* opponent_matchups.csv
  elo_ratings,          \* run_elo_model: player id -> rating
  elo_changes,          \* the deltas of the game being evaluated
  avg_opp_elo_log,      \* (game id, player id) -> average opponent rating
  game_queue,           \* the games of game_groups still to come
  game_id,              \* the game being evaluated
  to_eval,              \* the rows of game_df still to be evaluated
  committed,            \* the games whose deltas were applied, in order
  elo_before,           \* the ratings when the current game started
  final_output          \* the final ratings file: (player id, team) -> row

buildVars == <<tasks, pending, all_summaries, all_matchups, xg_log>>
tableVars == <<final_player_summary, teammate_summary, opponent_summary>>
eloVars == <<elo_ratings, elo_changes, avg_opp_elo_log, game_queue, game_id,
             to_eval, committed, elo_before, final_output>>
vars == <<season, pc, processed_files, buildVars, tableVars, eloVars>>

\* the raw shift chart of a game of the season
RawShiftChart(g) == MkGame(g, season[g])

\* the rows of the MoneyPuck shot file for one game (game_id is the five-digit
\* id of the file, the season is a column of its own)
GamePbpRows(g) ==
  LET ks == SetToSeq({EventKey(x) : x \in season[g].events})
  IN [i \in 1..Len(ks) |->
        LET x == EventOfKey(ks[i])
        IN [season |-> SEASON_TO_PROCESS,
            game_id |-> g - SEASON_TO_PROCESS * 1000000,
            time |-> x[1], teamCode |-> x[2],
            xGoal |-> IF x[2] = HomeCode THEN 40 ELSE 20,
            homeTeamCode |-> HomeCode,
            homeSkatersOnIce |-> x[3], awaySkatersOnIce |-> x[4],
            event |-> "SHOT"]]

MoneypuckDf ==
  LET gs == SetToSeq(DOMAIN season)
  IN Concat([i \in 1..Len(gs) |-> GamePbpRows(gs[i])])

\* build_final_summaries.main: game_id_pbp is the text season + '0' + game_id
\* read as a number; the filter keeps 5v5 shot events
ShotEvents(moneypuck_df) ==
  LET kept == SelectSeq(moneypuck_df, LAMBDA e :
                 /\ e.homeSkatersOnIce = 5
                 /\ e.awaySkatersOnIce = 5
                 /\ e.event \in {"SHOT", "GOAL", "MISS", "BLOCK"})
  IN [i \in 1..Len(kept) |->
        [game_id_pbp |-> kept[i].season * 1000000 + kept[i].game_id,
         absolute_time_seconds |-> kept[i].time,
         xGoal |-> kept[i].xGoal, teamCode |-> kept[i].teamCode]]

Init ==
  /\ \/ season \in [{2023020001} -> RichGameInputs]
     \/ season \in [GameIds -> SmallGameInputs]
     \/ season \in [{2023020001} -> OddGameInputs]
     \/ season \in [RegularGameIds -> TradeGameInputs]
  /\ pc = "normalize"
  /\ processed_files = <<>>
  /\ tasks = <<>>
  /\ pending = {}
  /\ all_summaries = <<>>
  /\ all_matchups = <<>>
  /\ xg_log = <<>>
  /\ final_player_summary = <<>>
  /\ teammate_summary = <<>>
  /\ opponent_summary = <<>>
  /\ elo_ratings = <<>>
  /\ elo_changes = <<>>
  /\ avg_opp_elo_log = <<>>
  /\ game_queue = <<>>
  /\ game_id = 0
  /\ to_eval = <<>>
  /\ committed = <<>>
  /\ elo_before = <<>>
  /\ final_output = <<>>

\* 01_process_raw_shifts.main: every raw file with a regular shift yields a
\* processed file
ProcessRawShifts ==
  /\ pc = "normalize"
  /\ processed_files' =
       [g \in {h \in DOMAIN season : WritesProcessedFile(RawShiftChart(h))} |->
          NormalizeFile(RawShiftChart(g))]
  /\ pc' = "build"
  /\ UNCHANGED <<season, buildVars, tableVars, eloVars>>

(* ------------------- build_final_summaries.py: main -------------------- *)
RECURSIVE Reverse(_)
Reverse(s) == IF s = <<>> THEN <<>> ELSE Reverse(Tail(s)) \o <<Head(s)>>

\* list(PROCESSED_SHIFTS_DIR.glob(...)): the directory order is not fixed
GlobOrders(files) == {SetToSeq(files), Reverse(SetToSeq(files))}

\* main up to the submission of the tasks
BuildStart ==
  /\ pc = "build"
  /\ \E order \in GlobOrders(DOMAIN processed_files) : tasks' = order
  /\ pending' = DOMAIN processed_files
  /\ all_summaries' = <<>>
  /\ all_matchups' = <<>>
  /\ pc' = "collect"
  /\ UNCHANGED <<season, processed_files, xg_log, tableVars, eloVars>>

\* mutation of CollectResult for C14: only the result that arrives first is
\* kept
CollectResultKeepsFirst(g) ==
  /\ pc = "collect"
  /\ g \in pending
  /\ LET res == process_game_file(g, processed_files[g], ShotEvents(MoneypuckDf))
     IN IF res.outcome = "raise"
          THEN /\ pc' = "crashed"
               /\ UNCHANGED <<all_summaries, all_matchups, xg_log>>
          ELSE /\ pc' = pc
               /\ all_summaries' = IF all_summaries = <<>>
                                      THEN <<res.summary>> ELSE all_summaries
               /\ all_matchups' = IF all_summaries = <<>>
                                     THEN res.matchups ELSE all_matchups
               /\ xg_log' = (g :> res.xg_stats) @@ xg_log
  /\ pending' = pending \ {g}
  /\ UNCHANGED <<season, processed_files, tasks, tableVars, eloVars>>

\* one iteration of the loop over pool.imap_unordered: the result of some
\* task arrives; an exception of the task is raised in main and ends the run
CollectResult(g) ==
  /\ pc = "collect"
  /\ g \in pending
  /\ LET res == process_game_file(g, processed_files[g], ShotEvents(MoneypuckDf))
     IN IF res.outcome = "raise"
          THEN /\ pc' = "crashed"
               /\ UNCHANGED <<all_summaries, all_matchups, xg_log>>
          ELSE /\ pc' = pc
               /\ all_summaries' = Append(all_summaries, res.summary)
               /\ all_matchups' = all_matchups \o res.matchups
               /\ xg_log' = (g :> res.xg_stats) @@ xg_log
  /\ pending' = pending \ {g}
  /\ UNCHANGED <<season, processed_files, tasks, tableVars, eloVars>>

\* master_roster: the distinct (gameId, playerId, teamAbbrev) of the processed
\* files, in file order and first appearance
RECURSIVE DropDuplicates(_)
DropDuplicates(s) ==
  IF s = <<>> THEN <<>>
  ELSE LET init == DropDuplicates(SubSeq(s, 1, Len(s) - 1))
           last == s[Len(s)]
       IN IF last \in Range(init) THEN init ELSE Append(init, last)

MasterRoster(files, order) ==
  DropDuplicates(
    Concat([k \in 1..Len(order) |->
              [i \in 1..Len(files[order[k]]) |->
                 [game_id |-> files[order[k]][i].game_id,
                  player_id |-> files[order[k]][i].player_id,
                  team |-> files[order[k]][i].team]]]))

\* pd.merge(master_roster, player_summary_df, how='left').fillna(0), then the
\* game_xg_diff column
FinalPlayerSummary(master_roster, player_summary_df) ==
  [i \in 1..Len(master_roster) |->
     LET m == master_roster[i]
         hit == {j \in 1..Len(player_summary_df) :
                   /\ player_summary_df[j].game_id = m.game_id
                   /\ player_summary_df[j].player_id = m.player_id}
         row == IF hit = {}
                  THEN [duration_seconds |-> 0, game_xg_for |-> 0,
                        game_xg_against |-> 0]
                  ELSE player_summary_df[CHOOSE j \in hit : TRUE]
     IN [game_id |-> m.game_id, player_id |-> m.player_id, team |-> m.team,
         duration_seconds |-> row.duration_seconds,
         game_xg_for |-> row.game_xg_for,
         game_xg_against |-> row.game_xg_against,
         game_xg_diff |-> row.game_xg_for - row.game_xg_against]]

\* groupby(keys)['duration'].sum(): key -> summed duration; keys[i] is the
\* tuple of the key columns of rows[i]
GroupSum(rows, keys) ==
  [k \in Range(keys) |->
     SetSum([i \in 1..Len(rows) |-> rows[i].duration],
            {i \in 1..Len(rows) : keys[i] = k})]

OpponentKey(r) == <<r.game_id, r.player_id, r.team, r.other_id, r.other_team>>
TeammateKey(r) == <<r.game_id, r.player_id, r.team, r.other_id>>

\* opponents_df.rename(player_id <-> other_id, team <-> other_team)
ReciprocalOpp(r) ==
  [r EXCEPT !.player_id = r.other_id, !.other_id = r.player_id,
            !.team = r.other_team, !.other_team = r.team]

\* teammates_df.rename(player_id <-> other_id)
ReciprocalTeammate(r) ==
  [r EXCEPT !.player_id = r.other_id, !.other_id = r.player_id]

\* mutation of FullOpponents for C4: the reciprocal rows are left out
FullOpponentsOneWay(matchups) ==
  SelectSeq(matchups, LAMBDA r : r.type = "opponent")

FullOpponents(matchups) ==
  LET opponents_df == SelectSeq(matchups, LAMBDA r : r.type = "opponent")
  IN opponents_df
     \o [i \in 1..Len(opponents_df) |-> ReciprocalOpp(opponents_df[i])]

FullTeammates(matchups) ==
  LET teammates_df == SelectSeq(matchups, LAMBDA r : r.type = "teammate")
  IN teammates_df
     \o [i \in 1..Len(teammates_df) |-> ReciprocalTeammate(teammates_df[i])]

\* the key columns of every row, for the two groupby calls
OpponentKeys(rows) == [i \in 1..Len(rows) |-> OpponentKey(rows[i])]
TeammateKeys(rows) == [i \in 1..Len(rows) |-> TeammateKey(rows[i])]

\* the grouped sums of the rows of a frame
OpponentGroups(rows) == GroupSum(rows, OpponentKeys(rows))
TeammateGroups(rows) == GroupSum(rows, TeammateKeys(rows))

OpponentSummary(matchups) == OpponentGroups(FullOpponents(matchups))
TeammateSummary(matchups) == TeammateGroups(FullTeammates(matchups))

\* the rest of main after the loop.  pd.concat of no frame at all (no task),
\* a merge with a frame that has no columns (every summary empty) and
\* matchups_df['type'] on an empty frame all raise.
FinalizeSummaries ==
  /\ pc = "collect"
  /\ pending = {}
  /\ LET player_summary_df == Concat(all_summaries)
     IN IF tasks = <<>> \/ player_summary_df = <<>> \/ all_matchups = <<>>
          THEN /\ pc' = "crashed"
               /\ UNCHANGED <<final_player_summary, teammate_summary,
                              opponent_summary>>
          ELSE /\ pc' = "summaries_saved"
               /\ final_player_summary' =
                    FinalPlayerSummary(MasterRoster(processed_files, tasks),
                                       player_summary_df)
               /\ opponent_summary' = OpponentSummary(all_matchups)
               /\ teammate_summary' = TeammateSummary(all_matchups)
  /\ UNCHANGED <<season, processed_files, buildVars, eloVars>>

(* ---------- build_matchup_summaries.py: stand-alone aggregator ---------- *)
\* the records the inner loops of process_game_for_matchups append for one
\* slice: every opponent record in both directions, every teammate record of
\* home_player_data in both directions (the records carry no other_team)
PairRecords(gid, p1, p2, duration, type) ==
  <<[game_id |-> gid, player_id |-> p1.player_id, team |-> p1.team,
     other_id |-> p2.player_id, duration |-> duration, type |-> type],
    [game_id |-> gid, player_id |-> p2.player_id, team |-> p2.team,
     other_id |-> p1.player_id, duration |-> duration, type |-> type]>>

SlicePairRecords(gid, home_player_data, away_player_data, duration) ==
  Concat([i \in 1..Len(home_player_data) |->
            Concat([j \in 1..Len(away_player_data) |->
                      PairRecords(gid, home_player_data[i],
                                  away_player_data[j], duration, "opponent")])
            \o LET p1 == home_player_data[i]
                   later == SelectSeq(home_player_data,
                                      LAMBDA p2 : p1.player_id < p2.player_id)
               IN Concat([j \in 1..Len(later) |->
                            PairRecords(gid, p1, later[j], duration,
                                        "teammate")])])

\* process_game_for_matchups: the matchup records of one game, none for a
\* game without skater shifts or with fewer than two teams
process_game_for_matchups(gid, game_shifts_df) ==
  LET skater_shifts == SkaterShifts(game_shifts_df)
  IN IF skater_shifts = <<>> THEN <<>>
     ELSE IF Cardinality({skater_shifts[i].team :
                            i \in 1..Len(skater_shifts)}) < 2 THEN <<>>
     ELSE LET qs == QualifyingSlices(skater_shifts)
              home == HomeTeamAbbrev(skater_shifts)
          IN Concat([k \in 1..Len(qs) |->
                       LET on_ice == OnIcePlayers(skater_shifts, qs[k])
                       IN SlicePairRecords(gid, HomePlayers(on_ice, home),
                                           AwayPlayers(on_ice, home),
                                           qs[k].duration)])

\* main of the stand-alone script: it rewrites the two matchup files from the
\* processed shift files (the sums do not depend on the order of the tasks);
\* matchups_df['type'] on a frame without records raises
BuildMatchupSummaries ==
  /\ pc = "summaries_saved"
  /\ LET order == SetToSeq(DOMAIN processed_files)
         all_matchup_records ==
           Concat([k \in 1..Len(order) |->
                     process_game_for_matchups(order[k],
                                               processed_files[order[k]])])
         teammates_df == SelectSeq(all_matchup_records,
                                   LAMBDA r : r.type = "teammate")
         opponents_df == SelectSeq(all_matchup_records,
                                   LAMBDA r : r.type = "opponent")
     IN IF all_matchup_records = <<>>
          THEN /\ pc' = "crashed"
               /\ UNCHANGED <<teammate_summary, opponent_summary>>
          ELSE /\ pc' = "matchups_saved"
               /\ teammate_summary' = TeammateGroups(teammates_df)
               /\ opponent_summary' = TeammateGroups(opponents_df)
  /\ UNCHANGED <<season, processed_files, buildVars, final_player_summary,
                 eloVars>>

(* ------------------- run_elo_model.py: Rating Engine ------------------- *)
\* 1000 / (1 + 10^(-d/400)) at d = -800, -750, ..., 800 Elo points
LogisticTable ==
  <<10, 13, 17, 23, 31, 40, 53, 70, 91, 118, 151, 192, 240, 297, 360, 429,
    500, 571, 640, 703, 760, 808, 849, 882, 909, 930, 947, 960, 969, 977,
    983, 987, 990>>

\* 1 / (1 + 10**(-elo_diff / 400)) in 1/1000, elo_diff in 1/100 Elo point:
\* the table, interpolated linearly between its points
ExpectedFromDiff(elo_diff) ==
  IF elo_diff < -80000 THEN LogisticTable[1]
  ELSE IF elo_diff >= 80000 THEN LogisticTable[Len(LogisticTable)]
  ELSE LET k == (elo_diff + 80000) \div 5000 + 1
           off == (elo_diff + 80000) % 5000
       IN LogisticTable[k]
          + ((LogisticTable[k + 1] - LogisticTable[k]) * off) \div 5000

\* mutation of calculate_expected_score for C21: the home bonus is given to
\* every player
calculate_expected_score_bonus_for_all(player_elo, avg_teammate_elo, avg_opponent_elo, is_home) ==
  ExpectedFromDiff((2 * player_elo + 8 * avg_teammate_elo) \div 10
                   - avg_opponent_elo + HOME_ICE_ADVANTAGE_ELO * 100)

calculate_expected_score(player_elo, avg_teammate_elo, avg_opponent_elo, is_home) ==
  LET home_ice_advantage == IF is_home THEN HOME_ICE_ADVANTAGE_ELO * 100 ELSE 0
      player_unit_strength == (2 * player_elo + 8 * avg_teammate_elo) \div 10
      elo_diff == player_unit_strength - avg_opponent_elo + home_ice_advantage
  IN ExpectedFromDiff(elo_diff)

\* k in 1/1000, the scores in 1/1000, the result in 1/100 Elo point
update_elo(k, actual_score, expected_score) ==
  (k * (actual_score - expected_score)) \div 10000

(* ------- plot_player_elo_history.py: its own copies of the functions ---- *)
\* calculate_expected_score of the plot script
plot_calculate_expected_score(player_elo, avg_teammate_elo, avg_opponent_elo, is_home) ==
  LET home_ice_advantage == IF is_home THEN HOME_ICE_ADVANTAGE_ELO * 100 ELSE 0
      player_unit_strength == (2 * player_elo + 8 * avg_teammate_elo) \div 10
      elo_diff == player_unit_strength - avg_opponent_elo + home_ice_advantage
  IN ExpectedFromDiff(elo_diff)

\* update_elo of the plot script: game_k = k * 2.5 (units as in update_elo)
plot_update_elo(k, actual_score, expected_score) ==
  (25 * k * (actual_score - expected_score)) \div 100000

\* mutation of IsRegularSeason for C18: every game counts
IsAnyGame(gid) == gid > 0

\* str(gid)[4:6] == '02'
IsRegularSeason(gid) == (gid \div 10000) % 100 = 2

\* home_team_map.get(game_id): the homeTeamCode of the first MoneyPuck row of
\* the game, "None" without one
HomeTeamMapGet(gid) ==
  LET rows == SelectSeq(MoneypuckDf, LAMBDA e :
                SEASON_TO_PROCESS * 1000000 + e.game_id = gid)
  IN IF rows = <<>> THEN "None" ELSE rows[1].homeTeamCode

\* skater_summaries: the regular-season rows of the player summaries with
\* the position looked up, goalies removed
SkaterSummaries(player_summaries) ==
  LET kept == SelectSeq(player_summaries, LAMBDA r :
                  IsRegularSeason(r.game_id) /\ Position(r.player_id) # "G")
  IN [i \in 1..Len(kept) |->
        [game_id |-> kept[i].game_id, player_id |-> kept[i].player_id,
         team |-> kept[i].team, toi_5v5 |-> kept[i].duration_seconds,
         xg_for_5v5 |-> kept[i].game_xg_for,
         xg_against_5v5 |-> kept[i].game_xg_against,
         game_xg_diff |-> kept[i].game_xg_for - kept[i].game_xg_against,
         position |-> Position(kept[i].player_id)]]

\* the rows of the two matchup tables for one player of one regular-season game
TeammateRows(gid, player_id) ==
  {k \in DOMAIN teammate_summary :
     IsRegularSeason(k[1]) /\ k[1] = gid /\ k[2] = player_id}

OpponentRows(gid, player_id) ==
  {k \in DOMAIN opponent_summary :
     IsRegularSeason(k[1]) /\ k[1] = gid /\ k[2] = player_id}

\* the teammate_id / opponent_id column of the row with key k
OtherId(k) == k[4]

\* np.average(ids.map(elo_ratings), weights=shared_toi) over the rows `rows`
\* of a matchup table
WeightedAverage(ratings, table, rows) ==
  SetSum([k \in rows |-> ratings[OtherId(k)] * table[k]], rows)
    \div SetSum([k \in rows |-> table[k]], rows)

\* the sum of the weights of np.average
WeightSum(table, rows) == SetSum([k \in rows |-> table[k]], rows)

\* mutation of PlayerSkipped for C12: only the ice time is tested
PlayerSkippedToiOnly(row) == row.toi_5v5 <= 0

\* the test of the `continue` of the player loop
PlayerSkipped(row) ==
  \/ TeammateRows(row.game_id, row.player_id) = {}
  \/ OpponentRows(row.game_id, row.player_id) = {}
  \/ row.toi_5v5 <= 0

AvgTeammateElo(ratings, row) ==
  WeightedAverage(ratings, teammate_summary,
                  TeammateRows(row.game_id, row.player_id))

AvgOpponentElo(ratings, row) ==
  WeightedAverage(ratings, opponent_summary,
                  OpponentRows(row.game_id, row.player_id))

\* np.average raises ZeroDivisionError when the weights sum to zero
AverageRaises(row) ==
  \/ WeightSum(teammate_summary,
               TeammateRows(row.game_id, row.player_id)) = 0
  \/ WeightSum(opponent_summary,
               OpponentRows(row.game_id, row.player_id)) = 0

\* mutation of ActualScore for C15: the differential enters with the sign
\* turned
ActualScoreInverted(row) == 500 - 5 * row.game_xg_diff

\* 0.5 + game_xg_diff / 2.0, in 1/1000 (game_xg_diff in 1/100 goal)
ActualScore(row) == 500 + 5 * row.game_xg_diff

\* mutation of NormalizationToi for C23: the forward constant for everybody
NormalizationToiForward(row) == FORWARD_NORMALIZATION_TOI

NormalizationToi(row) ==
  IF row.position = "D" THEN DEFENSEMAN_NORMALIZATION_TOI
  ELSE FORWARD_NORMALIZATION_TOI

\* toi_5v5_mins / normalization_toi, in 1/1000 game
NumGamesPlayed(row) == (row.toi_5v5 * 1000) \div (60 * NormalizationToi(row))

\* the delta of one row of game_df, from the ratings `ratings`
EloChange(ratings, row) ==
  update_elo(K_FACTOR * NumGamesPlayed(row), ActualScore(row),
             calculate_expected_score(ratings[row.player_id],
                                      AvgTeammateElo(ratings, row),
                                      AvgOpponentElo(ratings, row),
                                      row.team = HomeTeamMapGet(row.game_id)))

\* mutation of GameGroups for C7: the games in the order of their first row in
\* the table, not sorted
GameGroupsTableOrder(skater_summaries) ==
  DropDuplicates([i \in 1..Len(skater_summaries) |->
                    skater_summaries[i].game_id])

\* skater_summaries.sort_values(by='game_id').groupby('game_id'): the game ids
\* of the groups in the order the game loop meets them
GameGroups(skater_summaries) ==
  SetToSeq({skater_summaries[i].game_id : i \in 1..Len(skater_summaries)})

\* the data preparation of main, up to the game loop
EloPrepare ==
  /\ pc \in {"summaries_saved", "matchups_saved"}
  /\ LET sk == SkaterSummaries(final_player_summary)
     IN /\ elo_ratings' = [p \in {sk[i].player_id : i \in 1..Len(sk)} |->
                             INITIAL_ELO * 100]
        /\ game_queue' = GameGroups(sk)
  /\ avg_opp_elo_log' = <<>>
  /\ committed' = <<>>
  /\ pc' = "elo_loop"
  /\ UNCHANGED <<season, processed_files, buildVars, tableVars, elo_changes,
                 game_id, to_eval, elo_before, final_output>>

\* the rows of one group of game_groups; sort_values(by='game_id') does not
\* fix the order of the rows of one game
GameDf(gid) ==
  SelectSeq(SkaterSummaries(final_player_summary), LAMBDA r : r.game_id = gid)

RowOrders(rows) == {rows, Reverse(rows)}

\* the head of the game loop: the next game of game_groups
StartGame ==
  /\ pc = "elo_loop"
  /\ game_queue # <<>>
  /\ game_id' = Head(game_queue)
  /\ game_queue' = Tail(game_queue)
  /\ \E order \in RowOrders(GameDf(Head(game_queue))) : to_eval' = order
  /\ elo_changes' = <<>>
  /\ elo_before' = elo_ratings
  /\ pc' = "elo_game"
  /\ UNCHANGED <<season, processed_files, buildVars, tableVars, elo_ratings,
                 avg_opp_elo_log, committed, final_output>>

\* mutation of EvalPlayer for C6: the delta is added to the rating at once
EvalPlayerStreaming ==
  /\ pc = "elo_game"
  /\ to_eval # <<>>
  /\ LET player_row == Head(to_eval)
         pid == player_row.player_id
     IN IF PlayerSkipped(player_row)
          THEN UNCHANGED <<elo_changes, avg_opp_elo_log, elo_ratings>>
          ELSE /\ avg_opp_elo_log' =
                    (<<game_id, pid>> :> AvgOpponentElo(elo_ratings, player_row))
                    @@ avg_opp_elo_log
               /\ elo_changes' = elo_changes
               /\ elo_ratings' =
                    [elo_ratings EXCEPT
                       ![pid] = @ + EloChange(elo_ratings, player_row)]
  /\ to_eval' = Tail(to_eval)
  /\ UNCHANGED <<season, pc, processed_files, buildVars, tableVars,
                 game_queue, game_id, committed, elo_before, final_output>>

\* one iteration of the player loop; an exception of np.average ends the run
EvalPlayer ==
  /\ pc = "elo_game"
  /\ to_eval # <<>>
  /\ LET player_row == Head(to_eval)
         pid == player_row.player_id
     IN IF PlayerSkipped(player_row)
          THEN UNCHANGED <<pc, elo_changes, avg_opp_elo_log>>
          ELSE IF AverageRaises(player_row)
            THEN /\ pc' = "elo_crashed"
                 /\ UNCHANGED <<elo_changes, avg_opp_elo_log>>
            ELSE /\ avg_opp_elo_log' =
                      (<<game_id, pid>> :>
                         AvgOpponentElo(elo_ratings, player_row))
                      @@ avg_opp_elo_log
                 /\ elo_changes' =
                      (pid :> ((IF pid \in DOMAIN elo_changes
                                  THEN elo_changes[pid] ELSE 0)
                               + EloChange(elo_ratings, player_row)))
                      @@ elo_changes
                 /\ pc' = pc
  /\ to_eval' = Tail(to_eval)
  /\ UNCHANGED <<season, processed_files, buildVars, tableVars,
                 elo_ratings, game_queue, game_id, committed, elo_before,
                 final_output>>

\* mutation of CommitGame for C17: only the players with a delta keep an entry
CommitGameChangedOnly ==
  /\ pc = "elo_game"
  /\ to_eval = <<>>
  /\ elo_ratings' = [p \in DOMAIN elo_changes |->
                       elo_ratings[p] + elo_changes[p]]
  /\ committed' = Append(committed, game_id)
  /\ pc' = "elo_loop"
  /\ UNCHANGED <<season, processed_files, buildVars, tableVars, elo_changes,
                 avg_opp_elo_log, game_queue, game_id, to_eval, elo_before,
                 final_output>>

\* mutation of CommitGame for C30: a player without a delta in the game
\* loses a hundredth of a point
CommitGameIdleDecay ==
  /\ pc = "elo_game"
  /\ to_eval = <<>>
  /\ elo_ratings' = [p \in DOMAIN elo_ratings |->
                       IF p \in DOMAIN elo_changes
                         THEN elo_ratings[p] + elo_changes[p]
                         ELSE elo_ratings[p] - 1]
  /\ committed' = Append(committed, game_id)
  /\ pc' = "elo_loop"
  /\ UNCHANGED <<season, processed_files, buildVars, tableVars, elo_changes,
                 avg_opp_elo_log, game_queue, game_id, to_eval, elo_before,
                 final_output>>

\* the loop over elo_changes.items() that ends the iteration of the game loop
CommitGame ==
  /\ pc = "elo_game"
  /\ to_eval = <<>>
  /\ elo_ratings' = [p \in DOMAIN elo_ratings |->
                       IF p \in DOMAIN elo_changes
                         THEN elo_ratings[p] + elo_changes[p]
                         ELSE elo_ratings[p]]
  /\ committed' = Append(committed, game_id)
  /\ pc' = "elo_loop"
  /\ UNCHANGED <<season, processed_files, buildVars, tableVars, elo_changes,
                 avg_opp_elo_log, game_queue, game_id, to_eval, elo_before,
                 final_output>>

\* per_team_stats: groupby(['player_id', 'team']).agg(nunique, sum, sum,
\* sum); the ice time is kept in seconds
PerTeamStats(skater_summaries) ==
  LET n == Len(skater_summaries)
      rows(k) == {i \in 1..n : /\ skater_summaries[i].player_id = k[1]
                                /\ skater_summaries[i].team = k[2]}
  IN [k \in {<<skater_summaries[i].player_id, skater_summaries[i].team>> :
               i \in 1..n} |->
        [games_played |->
           Cardinality({skater_summaries[i].game_id : i \in rows(k)}),
         total_toi |->
           SetSum([i \in 1..n |-> skater_summaries[i].toi_5v5], rows(k)),
         season_xg_for |->
           SetSum([i \in 1..n |-> skater_summaries[i].xg_for_5v5], rows(k)),
         season_xg_against |->
           SetSum([i \in 1..n |-> skater_summaries[i].xg_against_5v5],
                  rows(k))]]

\* traded_player_ids: the players with more than one row of per_team_stats
TradedPlayerIds(per_team_stats) ==
  {k[1] : k \in {x \in DOMAIN per_team_stats :
                   \E y \in DOMAIN per_team_stats : y[1] = x[1] /\ y # x}}

\* single_team_stats: the rows of the players that were not traded
SingleTeamStats(per_team_stats) ==
  [k \in {x \in DOMAIN per_team_stats :
            x[1] \notin TradedPlayerIds(per_team_stats)} |-> per_team_stats[k]]

\* mutation of TotalStats for C13: the total row repeats one per-team row
TotalStatsOneTeam(per_team_stats) ==
  [k \in {<<p, "TOT">> : p \in TradedPlayerIds(per_team_stats)} |->
     per_team_stats[CHOOSE x \in DOMAIN per_team_stats : x[1] = k[1]]]

\* total_stats: for every traded player one row with team 'TOT', the sums of
\* the player's rows of per_team_stats
TotalStats(per_team_stats) ==
  [k \in {<<p, "TOT">> : p \in TradedPlayerIds(per_team_stats)} |->
     LET mine == {x \in DOMAIN per_team_stats : x[1] = k[1]}
     IN [games_played |->
           SetSum([x \in mine |-> per_team_stats[x].games_played], mine),
         total_toi |->
           SetSum([x \in mine |-> per_team_stats[x].total_toi], mine),
         season_xg_for |->
           SetSum([x \in mine |-> per_team_stats[x].season_xg_for], mine),
         season_xg_against |->
           SetSum([x \in mine |-> per_team_stats[x].season_xg_against],
                  mine)]]

\* final_summary = pd.concat([single_team_stats, total_stats])
FinalSummary(per_team_stats) ==
  SingleTeamStats(per_team_stats) @@ TotalStats(per_team_stats)

\* final_output_df: final_summary merged with the ratings on player_id (the
\* name, rank and percentage columns are left out)
FinalOutputDf(final_summary, ratings) ==
  [k \in DOMAIN final_summary |->
     [games_played |-> final_summary[k].games_played,
      total_toi |-> final_summary[k].total_toi,
      season_xg_for |-> final_summary[k].season_xg_for,
      season_xg_against |-> final_summary[k].season_xg_against,
      elo_rating |-> ratings[k[1]]]]

\* the game loop is over: the final ratings file is written
EloFinish ==
  /\ pc = "elo_loop"
  /\ game_queue = <<>>
  /\ final_output' =
       FinalOutputDf(
         FinalSummary(PerTeamStats(SkaterSummaries(final_player_summary))),
         elo_ratings)
  /\ pc' = "done"
  /\ UNCHANGED <<season, processed_files, buildVars, tableVars, elo_ratings,
                 elo_changes, avg_opp_elo_log, game_queue, game_id, to_eval,
                 committed, elo_before>>

Next ==
  \/ ProcessRawShifts
  \/ BuildStart
  \/ \E g \in GameIds : CollectResult(g)
  \/ FinalizeSummaries
  \/ BuildMatchupSummaries
  \/ EloPrepare
  \/ StartGame
  \/ EvalPlayer
  \/ CommitGame
  \/ EloFinish

Spec == Init /\ [][Next]_vars

(* ======================= properties of the pipeline ==================== *)
\* the matchup tables were just written (nothing rewrites them afterwards)
TablesSaved == pc \in {"summaries_saved", "matchups_saved"}

\* the shared time a matchup table holds for the ordered pair (a, b) of game
\* g: the sum over the rows keyed (g, a, ., b)
PairTime(table, g, a, b) ==
  LET ks == {k \in DOMAIN table : k[1] = g /\ k[2] = a /\ k[4] = b}
  IN SetSum([k \in ks |-> table[k]], ks)

HasPairRow(table, g, a, b) ==
  \E k \in DOMAIN table : k[1] = g /\ k[2] = a /\ k[4] = b

\* the qualifying slices of the processed file of game g
SlicesOf(g) == QualifyingSlices(SkaterShifts(processed_files[g]))

\* the shift rows on the ice in slice sl of game g
OnIceOf(g, sl) == OnIcePlayers(SkaterShifts(processed_files[g]), sl)

\* the game whose deltas were applied last
JustCommitted == pc = "elo_loop" /\ committed # <<>>

(* C1: for every processed game, every non-goalie skater of either team who
   has positive 5v5 ice time in the game has a rating delta computed and
   applied when the game is committed; none of them is skipped. *)
C1_EverySkaterWithIceTimeIsRated ==
  JustCommitted =>
    \A i \in 1..Len(GameDf(game_id)) :
       GameDf(game_id)[i].toi_5v5 > 0
         => GameDf(game_id)[i].player_id \in DOMAIN elo_changes

(* C2: for every qualifying slice and every pair of distinct skaters of one
   team on the ice in it, home and away alike, the saved teammate table holds
   the pair in both orders with at least the duration of the slice. *)
C2_TeammatePairsOfBothTeams ==
  TablesSaved =>
    \A g \in DOMAIN processed_files :
      \A n \in 1..Len(SlicesOf(g)) :
        LET sl == SlicesOf(g)[n]
            on == OnIceOf(g, sl)
        IN \A i, j \in 1..Len(on) :
             (on[i].team = on[j].team /\ on[i].player_id # on[j].player_id)
               => /\ HasPairRow(teammate_summary, g, on[i].player_id,
                                on[j].player_id)
                  /\ PairTime(teammate_summary, g, on[i].player_id,
                              on[j].player_id) >= sl.duration

\* the candidate slices of game g: consecutive boundaries of one period
CandidateSlices(g) ==
  LET all_times == AllTimes(SkaterShifts(processed_files[g]))
  IN {CandidateSlice(all_times, i) : i \in 1..(Len(all_times) - 1)}

\* the distinct skaters of side `home` (or of the other side) whose shift
\* covers the midpoint of slice sl
SkatersCovering(g, sl, is_home) ==
  LET sk == SkaterShifts(processed_files[g])
      home == HomeTeamAbbrev(sk)
  IN {sk[i].player_id : i \in {j \in 1..Len(sk) :
                                 /\ CoversMidpoint(sk[j], sl)
                                 /\ (sk[j].team = home) = is_home}}

\* the total duration of the qualifying slices of g with a and b both on ice
SharedSliceTime(g, a, b) ==
  LET qs == SlicesOf(g)
      both == {n \in 1..Len(qs) :
                 LET ids == {OnIceOf(g, qs[n])[i].player_id :
                               i \in 1..Len(OnIceOf(g, qs[n]))}
                 IN a \in ids /\ b \in ids}
  IN SetSum([n \in both |-> qs[n].duration], both)

\* the games whose task has run and returned
TaskDone(g) ==
  g \in Range(tasks) /\ g \notin pending /\ SkaterShifts(processed_files[g]) # <<>>

(* C3: in the saved opponent table, for every game and every pair of skaters
   of opposite teams, the shared time under (H, A) and under (A, H) equals
   the total duration of the qualifying slices in which both are on the ice
   (one contribution of the slice duration per slice and direction), and
   there is a row exactly when that total is positive. *)
C3_OpponentSharedTimeIsSliceTime ==
  TablesSaved =>
    \A g \in DOMAIN processed_files :
      \A a, b \in Players :
        TeamOf(a) # TeamOf(b) =>
          /\ PairTime(opponent_summary, g, a, b) = SharedSliceTime(g, a, b)
          /\ HasPairRow(opponent_summary, g, a, b)
               <=> SharedSliceTime(g, a, b) > 0

\* (A, B) has a row iff (B, A) has one, with the same shared time
SymmetricTable(table) ==
  \A k \in DOMAIN table :
    /\ HasPairRow(table, k[1], k[4], k[2])
    /\ PairTime(table, k[1], k[4], k[2]) = PairTime(table, k[1], k[2], k[4])

(* C4: in the saved teammate and opponent tables a row keyed (A, B) exists
   for a game iff a row keyed (B, A) exists, and both carry the same shared
   time. *)
C4_PairwiseSymmetry ==
  TablesSaved =>
    SymmetricTable(teammate_summary) /\ SymmetricTable(opponent_summary)

\* both tables are written, and the opponent table holds pairs with different
\* shared times (a line change split the game into slices)
C4_Witness ==
  /\ TablesSaved
  /\ DOMAIN teammate_summary # {}
  /\ \E k1, k2 \in DOMAIN opponent_summary :
        opponent_summary[k1] # opponent_summary[k2]

(* C5: a candidate slice contributes to the aggregates of its game if and
   only if exactly five distinct non-goalie skaters of the home side and
   exactly five of the away side cover its midpoint. *)
C5_ContributesIffFiveASide ==
  \A g \in DOMAIN processed_files :
    TaskDone(g) =>
      \A sl \in CandidateSlices(g) :
        (sl \in Range(SlicesOf(g)))
          <=> /\ sl.period = sl.end_period
              /\ sl.duration > 0
              /\ Cardinality(SkatersCovering(g, sl, TRUE)) = SKATERS_PER_SIDE
              /\ Cardinality(SkatersCovering(g, sl, FALSE)) = SKATERS_PER_SIDE

\* the delta of player p in game g computed from the ratings r alone: the sum
\* over the rows of p that the player loop does not skip
BatchDelta(r, g, p) ==
  LET rows == GameDf(g)
      mine == {i \in 1..Len(rows) :
                 rows[i].player_id = p /\ ~PlayerSkipped(rows[i])}
  IN SetSum([i \in mine |-> EloChange(r, rows[i])], mine)

(* C6: all deltas of a game are computed from the ratings as they stood
   before the game: the ratings do not change while the players of the game
   are evaluated, and after the commit every rating is the rating before the
   game plus the delta computed from the ratings before the game, whatever
   the order in which the players were evaluated. *)
C6_BatchCommit ==
  /\ pc = "elo_game" => elo_ratings = elo_before
  /\ JustCommitted =>
       \A p \in DOMAIN elo_ratings :
          elo_ratings[p] = elo_before[p] + BatchDelta(elo_before, game_id, p)

\* the second game of a season was committed and moved at least two ratings
C6_Witness ==
  /\ JustCommitted
  /\ Len(committed) = 2
  /\ Cardinality({p \in DOMAIN elo_ratings :
                    elo_ratings[p] # elo_before[p]}) >= 2

(* C7: games are committed one at a time in strictly ascending game id:
   whatever the row order of the input tables, when a game is committed every
   game of the Rating Engine's input with a smaller id was committed before
   it, and none with a larger id. *)
C7_AscendingCommitOrder ==
  \A i \in 1..Len(committed) :
    /\ \A j \in 1..(i - 1) : committed[j] < committed[i]
    /\ \A g \in Range(GameGroups(SkaterSummaries(final_player_summary))) :
         g < committed[i] => \E j \in 1..(i - 1) : committed[j] = g

\* two games were committed although the player summary table lists the rows
\* of the later game first
C7_Witness ==
  /\ Len(committed) = 2
  /\ committed[1] < committed[2]
  /\ \E i, j \in 1..Len(final_player_summary) :
       /\ i < j
       /\ final_player_summary[i].game_id = committed[2]
       /\ final_player_summary[j].game_id = committed[1]

(* C8: an event at time t is credited to the player of a shift
   [start, end] exactly when start < t <= end (open at the start, closed at
   the end), to xG-for when the team of the shift is the acting team and to
   xG-against otherwise. *)
C8_EventAttribution ==
  pc = "collect" =>
    \A g \in DOMAIN xg_log :
      SkaterShifts(processed_files[g]) # <<>> =>
        LET f == processed_files[g]
            ev == GameShotEvents(ShotEvents(MoneypuckDf), g)
            credits(p, same) ==
              {er \in (1..Len(ev)) \X (1..Len(f)) :
                 /\ f[er[2]].player_id = p
                 /\ f[er[2]].absolute_start_seconds
                      < ev[er[1]].absolute_time_seconds
                 /\ ev[er[1]].absolute_time_seconds
                      <= f[er[2]].absolute_end_seconds
                 /\ (f[er[2]].team = ev[er[1]].teamCode) = same}
            total(p, same) ==
              SetSum([er \in credits(p, same) |-> ev[er[1]].xGoal],
                     credits(p, same))
        IN \A p \in Players :
             /\ p \in DOMAIN xg_log[g]
                  <=> credits(p, TRUE) \cup credits(p, FALSE) # {}
             /\ p \in DOMAIN xg_log[g] =>
                  /\ xg_log[g][p].xg_for = total(p, TRUE)
                  /\ xg_log[g][p].xg_against = total(p, FALSE)

\* an event fell on the end of one shift (credited) and on the start of
\* another (not credited), and both an xG-for and an xG-against were credited
C8_Witness ==
  /\ pc = "collect"
  /\ \E g \in DOMAIN xg_log :
       LET f == processed_files[g]
           ev == GameShotEvents(ShotEvents(MoneypuckDf), g)
       IN /\ \E e \in 1..Len(ev), i, j \in 1..Len(f) :
               /\ f[i].absolute_end_seconds = ev[e].absolute_time_seconds
               /\ f[j].absolute_start_seconds = ev[e].absolute_time_seconds
               /\ f[i].player_id \in DOMAIN xg_log[g]
               /\ f[j].player_id \notin DOMAIN xg_log[g]
          /\ \E p, q \in DOMAIN xg_log[g] :
               xg_log[g][p].xg_for > 0 /\ xg_log[g][q].xg_against > 0

(* C9: after normalization no player has two shifts of one game that overlap
   in time: of two overlapping records of a player the offending one is
   dropped, so the player never fills two roster slots of a slice. *)
C9_NoOverlappingShifts ==
  pc = "build" =>
    \A g \in DOMAIN processed_files :
      LET f == processed_files[g]
      IN \A i, j \in 1..Len(f) :
           (i # j /\ f[i].player_id = f[j].player_id)
             => \/ f[i].absolute_end_seconds <= f[j].absolute_start_seconds
                \/ f[j].absolute_end_seconds <= f[i].absolute_start_seconds

\* game g has no skater shift, fewer than two teams or no qualifying slice
InsufficientData(g) ==
  LET sk == SkaterShifts(processed_files[g])
  IN \/ sk = <<>>
     \/ Cardinality({sk[i].team : i \in 1..Len(sk)}) < 2
     \/ QualifyingSlices(sk) = <<>>

(* C10: a game with insufficient data is skipped: when its result is
   collected it adds an empty player summary and no matchup record and the
   run goes on to the other games; and a commit of such a game leaves every
   rating unchanged. *)
C10_InsufficientGameIsSkipped ==
  [][/\ \A g \in GameIds :
          (pc = "collect" /\ g \in pending /\ g \notin pending'
             /\ InsufficientData(g))
            => /\ pc' = "collect"
               /\ all_summaries' = Append(all_summaries, <<>>)
               /\ all_matchups' = all_matchups
     /\ (pc = "elo_game" /\ pc' = "elo_loop" /\ InsufficientData(game_id))
          => elo_ratings' = elo_ratings]_vars

\* a "mm:ss" cell
IsClockText(c) == c.isstr /\ c.numeric /\ Len(c.parts) = 2

\* a well-formed on-ice record of a raw shift chart
WellFormedShift(r) ==
  /\ r.typeCode = REGULAR_SHIFT_TYPE
  /\ r.playerId # <<>>
  /\ IsClockText(r.startTime) /\ IsClockText(r.endTime)
  /\ IsClockText(r.duration)

(* C11: a malformed record (bad clock text or an empty field) is dropped on
   its own: after the Interval Normalizer has run, every well-formed on-ice
   record of every raw shift chart is in the processed file of its game. *)
C11_MalformedRecordDroppedAlone ==
  pc = "build" =>
    \A g \in DOMAIN season :
      \A i \in 1..Len(RawShiftChart(g)) :
        LET r == RawShiftChart(g)[i]
        IN WellFormedShift(r) =>
             /\ g \in DOMAIN processed_files
             /\ \E j \in 1..Len(processed_files[g]) :
                  /\ processed_files[g][j].player_id = r.playerId[1]
                  /\ processed_files[g][j].period = r.period
                  /\ processed_files[g][j].start_seconds_period
                       = r.startTime.parts[1] * 60 + r.startTime.parts[2]
                  /\ processed_files[g][j].end_seconds_period
                       = r.endTime.parts[1] * 60 + r.endTime.parts[2]

\* the weights of the teammate rows and of the opponent rows of a row of
\* game_df
TeammateWeight(row) ==
  WeightSum(teammate_summary, TeammateRows(row.game_id, row.player_id))

OpponentWeight(row) ==
  WeightSum(opponent_summary, OpponentRows(row.game_id, row.player_id))

(* C12: the rating update never fails: the Rating Engine never ends with an
   error, and when a game is committed a player whose teammate weights or
   opponent weights sum to zero (no matchup rows included) has no delta and
   an unchanged rating, while every other player with ice time has a delta. *)
C12_RatingUpdateNeverFails ==
  /\ pc # "elo_crashed"
  /\ JustCommitted =>
       \A i \in 1..Len(GameDf(game_id)) :
          LET row == GameDf(game_id)[i]
          IN IF TeammateWeight(row) = 0 \/ OpponentWeight(row) = 0
               THEN /\ row.player_id \notin DOMAIN elo_changes
                    /\ elo_ratings[row.player_id] = elo_before[row.player_id]
               ELSE row.toi_5v5 > 0 => row.player_id \in DOMAIN elo_changes

\* a game was committed in which a skater with ice time had no teammate row
\* and was skipped while another skater got a delta
C12_Witness ==
  /\ JustCommitted
  /\ \E i, j \in 1..Len(GameDf(game_id)) :
       /\ GameDf(game_id)[i].toi_5v5 > 0
       /\ TeammateWeight(GameDf(game_id)[i]) = 0
       /\ GameDf(game_id)[i].player_id \notin DOMAIN elo_changes
       /\ GameDf(game_id)[j].player_id \in DOMAIN elo_changes


(* ------------------------------- C13 ---------------------------------- *)
\* the rows of the season the final summary is grouped from
SeasonRows == SkaterSummaries(final_player_summary)

RowsOfPlayer(p) ==
  {i \in 1..Len(SeasonRows) : SeasonRows[i].player_id = p}

RowsOfPlayerTeam(p, t) ==
  {i \in RowsOfPlayer(p) : SeasonRows[i].team = t}

TeamsPlayedFor(p) == {SeasonRows[i].team : i \in RowsOfPlayer(p)}

OutputRowsOf(p) == {k \in DOMAIN final_output : k[1] = p}

\* the statistics columns of one row of the final output
StatsPart(r) ==
  [games_played |-> r.games_played, total_toi |-> r.total_toi,
   season_xg_for |-> r.season_xg_for,
   season_xg_against |-> r.season_xg_against]

\* the statistics of one player with one team
TeamStatsOf(p, t) ==
  [games_played |->
     Cardinality({SeasonRows[i].game_id : i \in RowsOfPlayerTeam(p, t)}),
   total_toi |->
     SetSum([i \in 1..Len(SeasonRows) |-> SeasonRows[i].toi_5v5],
            RowsOfPlayerTeam(p, t)),
   season_xg_for |->
     SetSum([i \in 1..Len(SeasonRows) |-> SeasonRows[i].xg_for_5v5],
            RowsOfPlayerTeam(p, t)),
   season_xg_against |->
     SetSum([i \in 1..Len(SeasonRows) |-> SeasonRows[i].xg_against_5v5],
            RowsOfPlayerTeam(p, t))]

\* the sums of the per-team statistics of one player
SumOfTeamStats(p) ==
  [games_played |->
     SetSum([t \in TeamsPlayedFor(p) |-> TeamStatsOf(p, t).games_played],
            TeamsPlayedFor(p)),
   total_toi |->
     SetSum([t \in TeamsPlayedFor(p) |-> TeamStatsOf(p, t).total_toi],
            TeamsPlayedFor(p)),
   season_xg_for |->
     SetSum([t \in TeamsPlayedFor(p) |-> TeamStatsOf(p, t).season_xg_for],
            TeamsPlayedFor(p)),
   season_xg_against |->
     SetSum([t \in TeamsPlayedFor(p) |->
               TeamStatsOf(p, t).season_xg_against],
            TeamsPlayedFor(p))]

\* C13 (as the code has it): in the final output a player who played for
\* more than one team has exactly one row, the combined row with team 'TOT'
\* whose statistics are the sums of the player's per-team statistics, and no
\* per-team row; a player of a single team has exactly one row, under that
\* team, with that team's statistics.
C13_TradedPlayerHasOnlyTotalRow ==
  pc = "done" =>
    \A p \in {SeasonRows[i].player_id : i \in 1..Len(SeasonRows)} :
      IF Cardinality(TeamsPlayedFor(p)) > 1
        THEN /\ OutputRowsOf(p) = {<<p, "TOT">>}
             /\ StatsPart(final_output[<<p, "TOT">>]) = SumOfTeamStats(p)
        ELSE \A t \in TeamsPlayedFor(p) :
               /\ OutputRowsOf(p) = {<<p, t>>}
               /\ StatsPart(final_output[<<p, t>>]) = TeamStatsOf(p, t)

\* a finished run with a player of two teams, two games played in total, and
\* a player who played both games for one team
C13_Witness ==
  /\ pc = "done"
  /\ \E p, q \in HomeSkaters \cup AwaySkaters :
       /\ Cardinality(TeamsPlayedFor(p)) = 2
       /\ <<p, "TOT">> \in DOMAIN final_output
       /\ final_output[<<p, "TOT">>].games_played = 2
       /\ final_output[<<p, "TOT">>].total_toi > 0
       /\ Cardinality(TeamsPlayedFor(q)) = 1
       /\ \E k \in OutputRowsOf(q) : final_output[k].games_played = 2

\* C13 as stated: the final output holds each per-team row of a traded player
\* and the combined total row; a single-team player has exactly one row.
C13_PerTeamRowsAndTotalRow ==
  pc = "done" =>
    \A p \in {SeasonRows[i].player_id : i \in 1..Len(SeasonRows)} :
      IF Cardinality(TeamsPlayedFor(p)) > 1
        THEN /\ \A t \in TeamsPlayedFor(p) :
                  /\ <<p, t>> \in DOMAIN final_output
                  /\ StatsPart(final_output[<<p, t>>]) = TeamStatsOf(p, t)
             /\ <<p, "TOT">> \in DOMAIN final_output
             /\ StatsPart(final_output[<<p, "TOT">>]) = SumOfTeamStats(p)
        ELSE Cardinality(OutputRowsOf(p)) = 1


(* ------------------------------- C14 ---------------------------------- *)
\* the result of the task of one processed file
TaskResult(g) ==
  process_game_file(g, processed_files[g], ShotEvents(MoneypuckDf))

\* the results of all tasks taken in ascending order of the game id
AscendingSummaries ==
  Concat([k \in 1..Cardinality(DOMAIN processed_files) |->
            TaskResult(SetToSeq(DOMAIN processed_files)[k]).summary])

AscendingMatchups ==
  Concat([k \in 1..Cardinality(DOMAIN processed_files) |->
            TaskResult(SetToSeq(DOMAIN processed_files)[k]).matchups])

\* the ratings after the games of a list, each game committed as one batch
RECURSIVE RatingsAfter(_, _)
RatingsAfter(r, games) ==
  IF games = <<>> THEN r
  ELSE RatingsAfter([p \in DOMAIN r |-> r[p] + BatchDelta(r, Head(games), p)],
                    Tail(games))

\* C14: the aggregate tables and the final ratings do not depend on the order
\* in which the parallel per-game tasks complete: the saved tables are the
\* tables built from the results taken in ascending game order, and the final
\* ratings are the fold of the per-game batches over the saved tables.
C14_CompletionOrderIndependent ==
  /\ pc = "summaries_saved" =>
       /\ final_player_summary =
            FinalPlayerSummary(MasterRoster(processed_files, tasks),
                               AscendingSummaries)
       /\ opponent_summary = OpponentSummary(AscendingMatchups)
       /\ teammate_summary = TeammateSummary(AscendingMatchups)
  /\ pc = "done" =>
       elo_ratings =
         RatingsAfter([p \in DOMAIN elo_ratings |-> INITIAL_ELO * 100],
                      GameGroups(SkaterSummaries(final_player_summary)))

\* a finished run whose tasks completed in an order other than the ascending
\* one, with two games committed and a rating moved
C14_Witness ==
  /\ pc = "done"
  /\ Len(committed) = 2
  /\ \E i, j \in 1..Len(all_matchups) :
       i < j /\ all_matchups[i].game_id > all_matchups[j].game_id
  /\ \E p \in DOMAIN elo_ratings : elo_ratings[p] # INITIAL_ELO * 100


(* ------------------------------- C15 ---------------------------------- *)
\* the xG differentials a row is re-evaluated with, in 1/100 goal, ascending
XgDiffs == <<-200, -35, -1, 0, 1, 35, 200>>

\* the delta of a row of game_df had its game_xg_diff been d, all else equal
DeltaWithDiff(row, d) ==
  EloChange(elo_ratings, [row EXCEPT !.game_xg_diff = d])

\* C15: for the player the loop evaluates next, with the ratings, the
\* teammate and opponent averages, the ice time, the position and the home
\* status as they are, a strictly larger game_xg_diff never gives a smaller
\* rating delta (checked along an ascending chain of differentials).
C15_DeltaMonotoneInXgDiff ==
  (pc = "elo_game" /\ to_eval # <<>> /\ ~PlayerSkipped(Head(to_eval))) =>
    \A i \in 1..(Len(XgDiffs) - 1) :
      /\ XgDiffs[i] < XgDiffs[i + 1]
      /\ DeltaWithDiff(Head(to_eval), XgDiffs[i])
           <= DeltaWithDiff(Head(to_eval), XgDiffs[i + 1])

\* a player with a non-zero differential is about to be evaluated in the
\* second game, after ratings have moved, and a larger differential would give
\* a strictly larger delta
C15_Witness ==
  /\ pc = "elo_game"
  /\ to_eval # <<>>
  /\ ~PlayerSkipped(Head(to_eval))
  /\ Len(committed) = 1
  /\ Head(to_eval).game_xg_diff # 0
  /\ \E p \in DOMAIN elo_ratings : elo_ratings[p] # INITIAL_ELO * 100
  /\ DeltaWithDiff(Head(to_eval), Head(to_eval).game_xg_diff)
       < DeltaWithDiff(Head(to_eval), Head(to_eval).game_xg_diff + 1)


(* ------------------------------- C16 ---------------------------------- *)
\* the shift rows of team t in period per of the processed file of game g
TeamPeriodShifts(g, t, per) ==
  SelectSeq(SkaterShifts(processed_files[g]),
            LAMBDA r : r.team = t /\ r.period = per)

\* the candidate slices of a list of shift rows, in boundary order
SlicesFrom(shifts) ==
  [i \in 1..(Len(AllTimes(shifts)) - 1) |->
     CandidateSlice(AllTimes(shifts), i)]

\* no player has two shifts that overlap, and the shifts leave no gap between
\* the first start and the last end
PartitionsPeriod(shifts) ==
  /\ shifts # <<>>
  /\ \A i, j \in 1..Len(shifts) :
       (i # j /\ shifts[i].player_id = shifts[j].player_id) =>
         \/ shifts[i].end_seconds_period <= shifts[j].start_seconds_period
         \/ shifts[j].end_seconds_period <= shifts[i].start_seconds_period
  /\ \A i \in 1..Len(shifts) :
       shifts[i].start_seconds_period < shifts[i].end_seconds_period
  /\ \A i \in 1..Len(shifts) :
       \/ \A j \in 1..Len(shifts) :
            shifts[j].end_seconds_period <= shifts[i].end_seconds_period
       \/ \E j \in 1..Len(shifts) :
            /\ shifts[j].start_seconds_period <= shifts[i].end_seconds_period
            /\ shifts[j].end_seconds_period > shifts[i].end_seconds_period

\* the length of the part of the period some shift covers: the shifts of the
\* inputs begin and end on whole minutes, so the covered minutes are counted
CoveredSeconds(shifts) ==
  60 * Cardinality({m \in 0..(PERIOD_SECONDS \div 60 - 1) :
                      \E i \in 1..Len(shifts) :
                        /\ shifts[i].start_seconds_period <= 60 * m
                        /\ 60 * m < shifts[i].end_seconds_period})

\* C16: when the shifts of one team in a period do not overlap per player and
\* leave no gap, the candidate slices built from their sorted, de-duplicated
\* boundaries lie in that period, have positive duration, each begins where
\* the one before ends, and their durations sum to the length the shifts
\* cover.
C16_SlicesPartitionCoveredTime ==
  pc = "build" =>
    \A g \in DOMAIN processed_files :
      \A t \in {HomeCode, AwayCode} :
        \A per \in {1, 2} :
          PartitionsPeriod(TeamPeriodShifts(g, t, per)) =>
            /\ \A i \in 1..Len(SlicesFrom(TeamPeriodShifts(g, t, per))) :
                 /\ SlicesFrom(TeamPeriodShifts(g, t, per))[i].period = per
                 /\ SlicesFrom(TeamPeriodShifts(g, t, per))[i].end_period = per
                 /\ SlicesFrom(TeamPeriodShifts(g, t, per))[i].duration > 0
                 /\ i > 1 =>
                      SlicesFrom(TeamPeriodShifts(g, t, per))[i].start_sec
                        = SlicesFrom(TeamPeriodShifts(g, t, per))[i - 1].end_sec
            /\ SeqSum([i \in 1..Len(SlicesFrom(TeamPeriodShifts(g, t, per))) |->
                         SlicesFrom(TeamPeriodShifts(g, t, per))[i].duration])
                 = CoveredSeconds(TeamPeriodShifts(g, t, per))

\* a game in which the home side changes a skater at 5:00: two candidate
\* slices of five minutes each
C16_Witness ==
  /\ pc = "build"
  /\ \E g \in DOMAIN processed_files :
       /\ PartitionsPeriod(TeamPeriodShifts(g, HomeCode, 1))
       /\ Len(SlicesFrom(TeamPeriodShifts(g, HomeCode, 1))) = 2
       /\ CoveredSeconds(TeamPeriodShifts(g, HomeCode, 1)) = 600


(* ------------------------------- C17 ---------------------------------- *)
\* the skaters known to the Rating Engine
AllSkaters == {SeasonRows[i].player_id : i \in 1..Len(SeasonRows)}

EloRunning == pc \in {"elo_loop", "elo_game", "done"}

\* the delta the commit of the current game applies to player p
CommittedDelta(p) == IF p \in DOMAIN elo_changes THEN elo_changes[p] ELSE 0

\* C17: when the Rating Engine starts, every known skater gets a rating entry;
\* every rating is 1500 until a game is committed; the commit of a game adds
\* to each rating the delta committed for that player and nothing else; no
\* other step changes a rating, and no entry is ever removed.
C17_RatingsInitialThenAdditive ==
  [][ /\ (~EloRunning /\ EloRunning') => DOMAIN elo_ratings' = AllSkaters'
      /\ (EloRunning' /\ committed' = <<>>) =>
           \A p \in DOMAIN elo_ratings' : elo_ratings'[p] = INITIAL_ELO * 100
      /\ EloRunning =>
           /\ DOMAIN elo_ratings \subseteq DOMAIN elo_ratings'
           /\ IF committed' # committed
                THEN \A p \in DOMAIN elo_ratings :
                       elo_ratings'[p] = elo_ratings[p] + CommittedDelta(p)
                ELSE elo_ratings' = elo_ratings ]_vars

\* the second game was committed and moved a rating that the first game had
\* moved already, while another skater still has the initial rating
C17_Witness ==
  /\ JustCommitted
  /\ Len(committed) = 2
  /\ \E p \in DOMAIN elo_ratings :
       /\ elo_before[p] # INITIAL_ELO * 100
       /\ elo_ratings[p] # elo_before[p]


(* ------------------------------- C18 ---------------------------------- *)
\* the rows of the saved player summary of player p in games whose id has 02
\* as its fifth and sixth digit
RegularRowsOf(p) ==
  {i \in 1..Len(final_player_summary) :
     /\ final_player_summary[i].player_id = p
     /\ (final_player_summary[i].game_id \div 10000) % 100 = 2}

\* C18: only regular-season games influence the result: every committed game
\* carries the regular-season marker, and the games played, the ice time and
\* the xG sums of every player of the final output are those of the player's
\* rows of regular-season games alone.
C18_OnlyRegularSeasonCounts ==
  /\ \A n \in 1..Len(committed) : (committed[n] \div 10000) % 100 = 2
  /\ pc = "done" =>
       \A p \in {k[1] : k \in DOMAIN final_output} :
         /\ SetSum([k \in OutputRowsOf(p) |-> final_output[k].games_played],
                   OutputRowsOf(p))
              = Cardinality({final_player_summary[i].game_id :
                               i \in RegularRowsOf(p)})
         /\ SetSum([k \in OutputRowsOf(p) |-> final_output[k].total_toi],
                   OutputRowsOf(p))
              = SetSum([i \in 1..Len(final_player_summary) |->
                          final_player_summary[i].duration_seconds],
                       RegularRowsOf(p))
         /\ SetSum([k \in OutputRowsOf(p) |-> final_output[k].season_xg_for],
                   OutputRowsOf(p))
              = SetSum([i \in 1..Len(final_player_summary) |->
                          final_player_summary[i].game_xg_for],
                       RegularRowsOf(p))
         /\ SetSum([k \in OutputRowsOf(p) |->
                      final_output[k].season_xg_against],
                   OutputRowsOf(p))
              = SetSum([i \in 1..Len(final_player_summary) |->
                          final_player_summary[i].game_xg_against],
                       RegularRowsOf(p))

\* a finished run over a season with a playoff game in which a rated skater
\* had ice time and an xG differential
C18_Witness ==
  /\ pc = "done"
  /\ committed # <<>>
  /\ \E i \in 1..Len(final_player_summary) :
       /\ (final_player_summary[i].game_id \div 10000) % 100 = 3
       /\ final_player_summary[i].duration_seconds > 0
       /\ final_player_summary[i].game_xg_diff # 0
       /\ final_player_summary[i].player_id \in DOMAIN elo_ratings
       /\ elo_ratings[final_player_summary[i].player_id] # INITIAL_ELO * 100


(* ------------------------------- C19 ---------------------------------- *)
\* the candidate slices of game g whose two boundaries lie in different
\* periods
CrossPeriodCandidates(g) ==
  {sl \in CandidateSlices(g) : sl.period # sl.end_period}

\* C19: a candidate slice whose two boundaries belong to different periods is
\* rejected: every qualifying slice of every processed game begins and ends
\* in the same period and has a positive duration, and every ice-time record
\* of the game's task carries a positive duration.
C19_NoSliceSpansPeriods ==
  pc = "collect" =>
    \A g \in DOMAIN processed_files :
      TaskDone(g) =>
        /\ \A n \in 1..Len(SlicesOf(g)) :
             /\ SlicesOf(g)[n].period = SlicesOf(g)[n].end_period
             /\ SlicesOf(g)[n].duration > 0
             /\ SlicesOf(g)[n] \notin CrossPeriodCandidates(g)
        /\ \A n \in 1..Len(all_summaries) :
             \A i \in 1..Len(all_summaries[n]) :
               all_summaries[n][i].duration_seconds > 0

\* a two-period game at full strength: the candidate slice from the end of
\* period 1 to the start of period 2 is rejected, the slices of both periods
\* qualify
C19_Witness ==
  /\ pc = "collect"
  /\ \E g \in DOMAIN processed_files :
       /\ TaskDone(g)
       /\ CrossPeriodCandidates(g) # {}
       /\ \E n, m \in 1..Len(SlicesOf(g)) :
            SlicesOf(g)[n].period = 1 /\ SlicesOf(g)[m].period = 2
       /\ \E n \in 1..Len(all_summaries) :
            \E i \in 1..Len(all_summaries[n]) :
              all_summaries[n][i].duration_seconds = 1200


(* ------------------------------- C20 ---------------------------------- *)
\* the team code the task of game g treats as home holds more than half of
\* the game's skater shift records
HomeHasStrictMajority(g) ==
  2 * TeamCount(SkaterShifts(processed_files[g]),
                HomeTeamAbbrev(SkaterShifts(processed_files[g])))
    > Len(SkaterShifts(processed_files[g]))

\* C20: the team treated as home is the team code with a strict majority of
\* the game's shift records, and a game without such a team is flagged, not
\* silently given a home team: no task that returned normally has built
\* records from slices of a game whose home code lacks a strict majority.
C20_HomeTeamHasStrictMajority ==
  pc = "collect" =>
    \A g \in DOMAIN processed_files :
      (TaskDone(g) /\ SlicesOf(g) # <<>>) => HomeHasStrictMajority(g)


(* ------------------------------- C21 ---------------------------------- *)
\* the home team the shot file designates for game g: the file names HomeCode
\* as home in every row, and a game without a row has no designation
DesignatedHome(g) == IF season[g].events = {} THEN "None" ELSE HomeCode

\* the bonus of the player of a row, in 1/100 Elo point
HomeBonus(row) ==
  IF row.team = DesignatedHome(row.game_id)
    THEN HOME_ICE_ADVANTAGE_ELO * 100 ELSE 0

\* the expected score of a row when the bonus is `bonus`
ExpectedWithBonus(row, bonus) ==
  ExpectedFromDiff((2 * elo_ratings[row.player_id]
                      + 8 * AvgTeammateElo(elo_ratings, row)) \div 10
                   - AvgOpponentElo(elo_ratings, row) + bonus)

\* the player loop has just evaluated the head of to_eval
EvaluatedHead ==
  /\ pc = "elo_game" /\ pc' = "elo_game"
  /\ to_eval # <<>> /\ to_eval' = Tail(to_eval)
  /\ ~PlayerSkipped(Head(to_eval))

\* C21: the delta the player loop adds for a player is computed from an
\* expected score that holds the home bonus exactly when the team code of the
\* player's row equals the home team the shot file designates for the game;
\* the players of the other team, and every player of a game without a
\* designation, get a bonus of 0.
C21_HomeBonusIffDesignatedHome ==
  [][ EvaluatedHead =>
        elo_changes'[Head(to_eval).player_id]
          = CommittedDelta(Head(to_eval).player_id)
            + update_elo(K_FACTOR * NumGamesPlayed(Head(to_eval)),
                         ActualScore(Head(to_eval)),
                         ExpectedWithBonus(Head(to_eval),
                                           HomeBonus(Head(to_eval)))) ]_vars

\* the second game of a season with a trade: in the first game players of the
\* designated home code were evaluated with the bonus, in the second players
\* of the other code are evaluated without it
C21_Witness ==
  /\ pc = "elo_game"
  /\ to_eval = <<>>
  /\ Len(committed) = 1
  /\ DesignatedHome(game_id) = HomeCode
  /\ DesignatedHome(committed[1]) = HomeCode
  /\ \E i \in 1..Len(GameDf(committed[1])) :
       /\ GameDf(committed[1])[i].team = HomeCode
       /\ HomeBonus(GameDf(committed[1])[i]) = HOME_ICE_ADVANTAGE_ELO * 100
       /\ elo_before[GameDf(committed[1])[i].player_id] # INITIAL_ELO * 100
  /\ \E j \in 1..Len(GameDf(game_id)) :
       /\ GameDf(game_id)[j].team # HomeCode
       /\ GameDf(game_id)[j].player_id \in DOMAIN elo_changes
       /\ HomeBonus(GameDf(game_id)[j]) = 0


(* ------------------------------- C22 ---------------------------------- *)
\* the result of the task of game g was collected by the loop of main
Collected(g) == g \in DOMAIN xg_log

\* C22: the merged summaries are finalized only after the result of every
\* submitted game task was collected, and the result of every submitted game
\* task is eventually collected: the run does not come to its end (no step is
\* possible once it has failed) while the result of a submitted task is
\* outstanding.
C22_FanInBarrier ==
  /\ pc = "summaries_saved" =>
       /\ pending = {}
       /\ \A g \in Range(tasks) : Collected(g)
  /\ pc = "crashed" => pending = {}


(* ------------------------------- C23 ---------------------------------- *)
\* toi_minutes / normalization_minutes(position) in 1/1000 game, the position
\* looked up in the player database
GamesEquivalent(row) ==
  (row.toi_5v5 * 1000)
    \div (60 * (IF Position(row.player_id) = "D"
                  THEN DEFENSEMAN_NORMALIZATION_TOI
                  ELSE FORWARD_NORMALIZATION_TOI))

C24_ActualScoreUsesNormalization ==
  (pc = "elo_game" /\ to_eval # <<>> /\ ~PlayerSkipped(Head(to_eval))) =>
    GAME_XG_NORMALIZATION_FACTOR * ActualScore(Head(to_eval))
      = 500 * GAME_XG_NORMALIZATION_FACTOR + 5 * Head(to_eval).game_xg_diff


(* ------------------------------- C25 ---------------------------------- *)
\* C25: for the arguments the Rating Engine calls them with, the two Elo
\* functions of the rating-history plot script return what the functions of
\* the Rating Engine return: the same expected score and the same delta.
C25_PlotScriptFunctionsIdentical ==
  (pc = "elo_game" /\ to_eval # <<>> /\ ~PlayerSkipped(Head(to_eval))) =>
    /\ plot_calculate_expected_score(
         elo_ratings[Head(to_eval).player_id],
         AvgTeammateElo(elo_ratings, Head(to_eval)),
         AvgOpponentElo(elo_ratings, Head(to_eval)),
         Head(to_eval).team = HomeTeamMapGet(Head(to_eval).game_id))
       = calculate_expected_score(
           elo_ratings[Head(to_eval).player_id],
           AvgTeammateElo(elo_ratings, Head(to_eval)),
           AvgOpponentElo(elo_ratings, Head(to_eval)),
           Head(to_eval).team = HomeTeamMapGet(Head(to_eval).game_id))
    /\ plot_update_elo(
         K_FACTOR * NumGamesPlayed(Head(to_eval)),
         ActualScore(Head(to_eval)),
         calculate_expected_score(
           elo_ratings[Head(to_eval).player_id],
           AvgTeammateElo(elo_ratings, Head(to_eval)),
           AvgOpponentElo(elo_ratings, Head(to_eval)),
           Head(to_eval).team = HomeTeamMapGet(Head(to_eval).game_id)))
       = EloChange(elo_ratings, Head(to_eval))


(* ------------------------------- C26 ---------------------------------- *)
\* C26 (as the code has it): the event loop accumulates xG for every player
\* with a shift at the event, goalies included, but the totals of a goalie
\* never reach a summary: no collected per-game summary has a row of a goalie,
\* and every goalie row of the saved player summary has zero xG-for, zero
\* xG-against and zero ice time.
C26_NoGoalieXgInSummaries ==
  /\ pc = "collect" =>
       \A n \in 1..Len(all_summaries) :
         \A i \in 1..Len(all_summaries[n]) :
           Position(all_summaries[n][i].player_id) # "G"
  /\ pc = "summaries_saved" =>
       \A i \in 1..Len(final_player_summary) :
         Position(final_player_summary[i].player_id) = "G" =>
           /\ final_player_summary[i].game_xg_for = 0
           /\ final_player_summary[i].game_xg_against = 0
           /\ final_player_summary[i].duration_seconds = 0

\* the tables are saved for a game in which the goalie was on the ice at a
\* shot: the event loop credited the goalie, the saved summary lists the
\* goalie with zero xG next to skaters with xG
C26_Witness ==
  /\ pc = "summaries_saved"
  /\ \E i, j \in 1..Len(final_player_summary) :
       /\ Position(final_player_summary[i].player_id) = "G"
       /\ final_player_summary[i].game_id \in DOMAIN xg_log
       /\ final_player_summary[i].player_id
            \in DOMAIN xg_log[final_player_summary[i].game_id]
       /\ final_player_summary[j].game_id = final_player_summary[i].game_id
       /\ final_player_summary[j].game_xg_for > 0

\* C26 as stated: a shot event's xG is never added to the xG-for or
\* xG-against total of a goalie.
C26_NoGoalieXgAttribution ==
  \A g \in DOMAIN xg_log :
    \A p \in DOMAIN xg_log[g] : Position(p) # "G"


(* ------------------------------- C27 ---------------------------------- *)
\* the 5v5 shot events of game g
EventsOf(g) == GameShotEvents(ShotEvents(MoneypuckDf), g)

\* the row of player p in game g of the saved summary carries xG
HasXgInSummary(g, p) ==
  \E i \in 1..Len(final_player_summary) :
    /\ final_player_summary[i].game_id = g
    /\ final_player_summary[i].player_id = p
    /\ \/ final_player_summary[i].game_xg_for # 0
       \/ final_player_summary[i].game_xg_against # 0

\* absolute second t lies in slice sl or at its end
InOrAtEndOfSlice(sl, t) ==
  /\ (sl.period - 1) * PERIOD_SECONDS + sl.start_sec <= t
  /\ t <= (sl.period - 1) * PERIOD_SECONDS + sl.end_sec

\* player p is credited with an event at second t of game g within a
\* qualifying slice that has p on the ice
CreditedWithinSlice(g, p, t) ==
  \E n \in 1..Len(SlicesOf(g)) :
    /\ InOrAtEndOfSlice(SlicesOf(g)[n], t)
    /\ \E i \in 1..Len(OnIceOf(g, SlicesOf(g)[n])) :
         OnIceOf(g, SlicesOf(g)[n])[i].player_id = p

\* C27: xG and ice time use the same 5v5 states: a player whose saved summary
\* carries xG is credited with an event only when the event time lies in, or
\* at the end of, a qualifying 5v5 slice with that player on the ice; and a
\* player with zero 5v5 seconds in a game has zero xG-for and zero xG-against
\* in the game's summary.
C27_XgOnlyWithinQualifyingSlices ==
  pc = "summaries_saved" =>
    /\ \A g \in DOMAIN processed_files :
         \A e \in 1..Len(EventsOf(g)) :
           \A r \in 1..Len(EventOnIce(processed_files[g],
                                      EventsOf(g)[e].absolute_time_seconds)) :
             HasXgInSummary(g, EventOnIce(processed_files[g],
                 EventsOf(g)[e].absolute_time_seconds)[r].player_id)
               => CreditedWithinSlice(g,
                    EventOnIce(processed_files[g],
                      EventsOf(g)[e].absolute_time_seconds)[r].player_id,
                    EventsOf(g)[e].absolute_time_seconds)
    /\ \A i \in 1..Len(final_player_summary) :
         final_player_summary[i].duration_seconds = 0 =>
           /\ final_player_summary[i].game_xg_for = 0
           /\ final_player_summary[i].game_xg_against = 0

\* the second half alone: no xG without 5v5 seconds
C27_NoXgWithoutIceTime ==
  pc = "summaries_saved" =>
    \A i \in 1..Len(final_player_summary) :
      final_player_summary[i].duration_seconds = 0 =>
        /\ final_player_summary[i].game_xg_for = 0
        /\ final_player_summary[i].game_xg_against = 0


(* ------------------------------- C28 ---------------------------------- *)
\* no skater has two shifts of one period of game g that overlap
NoSamePlayerOverlap(g) ==
  \A i, j \in 1..Len(processed_files[g]) :
    (/\ i # j
     /\ processed_files[g][i].player_id = processed_files[g][j].player_id
     /\ processed_files[g][i].period = processed_files[g][j].period) =>
      \/ processed_files[g][i].end_seconds_period
           <= processed_files[g][j].start_seconds_period
      \/ processed_files[g][j].end_seconds_period
           <= processed_files[g][i].start_seconds_period

\* the shared time of player p in game g summed over all rows of a table
TotalSharedTime(table, g, p) ==
  SetSum([k \in {x \in DOMAIN table : x[1] = g /\ x[2] = p} |-> table[k]],
         {x \in DOMAIN table : x[1] = g /\ x[2] = p})

\* opponents only: five opponents at every moment of the skater's 5v5 time
C28_OpponentTimeIsFiveTimesIceTime ==
  pc = "summaries_saved" =>
    \A i \in 1..Len(final_player_summary) :
      (/\ final_player_summary[i].duration_seconds > 0
       /\ NoSamePlayerOverlap(final_player_summary[i].game_id)) =>
        TotalSharedTime(opponent_summary, final_player_summary[i].game_id,
                        final_player_summary[i].player_id)
          = 5 * final_player_summary[i].duration_seconds

\* C28: for every game without same-player overlapping shifts and every
\* skater with 5v5 seconds T > 0 in it, the skater's teammate shared time
\* summed over all partners is 4 * T and the opponent shared time summed over
\* all opponents is 5 * T.
C28_SharedTimeTotals ==
  pc = "summaries_saved" =>
    \A i \in 1..Len(final_player_summary) :
      (/\ final_player_summary[i].duration_seconds > 0
       /\ NoSamePlayerOverlap(final_player_summary[i].game_id)) =>
        /\ TotalSharedTime(teammate_summary, final_player_summary[i].game_id,
                           final_player_summary[i].player_id)
             = 4 * final_player_summary[i].duration_seconds
        /\ TotalSharedTime(opponent_summary, final_player_summary[i].game_id,
                           final_player_summary[i].player_id)
             = 5 * final_player_summary[i].duration_seconds


(* ------------------------------- C29 ---------------------------------- *)
\* C29: every row of the saved teammate and opponent tables has a strictly
\* positive shared time, and whenever the player the loop is at has at least
\* one teammate row and one opponent row in the game, the weights of both
\* weighted rating averages sum to a positive value.
C29_PositiveSharedTime ==
  /\ TablesSaved =>
       /\ \A k \in DOMAIN teammate_summary : teammate_summary[k] > 0
       /\ \A k \in DOMAIN opponent_summary : opponent_summary[k] > 0
  /\ (/\ pc = "elo_game"
      /\ to_eval # <<>>
      /\ TeammateRows(Head(to_eval).game_id, Head(to_eval).player_id) # {}
      /\ OpponentRows(Head(to_eval).game_id, Head(to_eval).player_id) # {}) =>
       /\ TeammateWeight(Head(to_eval)) > 0
       /\ OpponentWeight(Head(to_eval)) > 0

\* the loop is at a player who has rows in both tables, among them a
\* teammate who shared only part of the player's ice time
C29_Witness ==
  /\ pc = "elo_game"
  /\ to_eval # <<>>
  /\ TeammateRows(Head(to_eval).game_id, Head(to_eval).player_id) # {}
  /\ OpponentRows(Head(to_eval).game_id, Head(to_eval).player_id) # {}
  /\ \E k \in TeammateRows(Head(to_eval).game_id, Head(to_eval).player_id) :
       teammate_summary[k] < Head(to_eval).toi_5v5
  /\ OpponentWeight(Head(to_eval)) = 5 * Head(to_eval).toi_5v5


(* ------------------------------- C30 ---------------------------------- *)
\* the rows of player p in the group of game g
RowsInGame(g, p) ==
  {i \in 1..Len(GameDf(g)) : GameDf(g)[i].player_id = p}

\* player p is not evaluated in game g: no row in the game, or on every row
\* of the game no 5v5 ice time, no teammate row or no opponent row
NotEvaluatedIn(g, p) ==
  \A i \in RowsInGame(g, p) :
     \/ GameDf(g)[i].toi_5v5 <= 0
     \/ TeammateRows(g, p) = {}
     \/ OpponentRows(g, p) = {}

\* C30: the commit of a game changes only ratings of players evaluated in
\* it: the step that commits a game leaves the rating of every player who
\* has no row in the game, no 5v5 ice time in it, or no teammate or no
\* opponent row in it, exactly as it was.
C30_CommitLeavesOthersUnchanged ==
  [][committed' # committed =>
       \A p \in DOMAIN elo_ratings :
          NotEvaluatedIn(game_id, p) => elo_ratings'[p] = elo_ratings[p]]_vars

\* a game was committed that moved a rating, while a skater without a row in
\* it and a skater of the game without teammate rows kept theirs
C30_Witness ==
  /\ JustCommitted
  /\ \E p \in DOMAIN elo_ratings : elo_ratings[p] # elo_before[p]
  /\ \E p \in DOMAIN elo_ratings :
       /\ RowsInGame(game_id, p) = {}
       /\ elo_ratings[p] = elo_before[p]
  /\ \E p \in DOMAIN elo_ratings :
       /\ RowsInGame(game_id, p) # {}
       /\ TeammateRows(game_id, p) = {}
       /\ elo_ratings[p] = elo_before[p]

====
